---- MODULE Spec2Model ----
(***************************************************************************)
(* Model of the fan-ranker bracket engine: the interactive 64-entry        *)
(* single-elimination bracket of public/app.js (graph construction,        *)
(* pickWinner, clearDownstream, undoMadness, persistence through           *)
(* localStorage) fed by the banded seeding of GET /api/brackets.           *)
(*                                                                         *)
(* Conventions.  JavaScript null/undefined winner ids are the number 0     *)
(* (team ids are positive SQLite row ids, and the code only ever tests a   *)
(* winner id for truthiness or strict equality with a team id).  A null    *)
(* or undefined team object is NoTeam.  Game ids are the very strings the  *)
(* code builds ("Bracket A-r64-0", "ff-0", "final-0").                     *)
(***************************************************************************)
EXTENDS Integers, Sequences, FiniteSets, TLC

VARIABLES
    mmState,     \* the module-level bracket state (null until the first load)
    lsMmState,   \* localStorage item "mmState": the persisted winner map
    lsMmUndo,    \* localStorage item "mmUndo": the persisted undo stack
    inflight,    \* number of /api/brackets fetches whose response has not arrived yet
    last,        \* history: the call that produced this state and its outcome
    ghost,       \* history: winner maps from before the latest not-yet-undone accepted picks
    run,         \* history: accepted picks, then undo calls, since a fresh bracket
    steps,       \* number of handler runs so far
    db,          \* the server's database: the rows of burger_club and of votes
    served,      \* the answer the server computed last
    pending,     \* the answers to the fetches of loadMadness in flight, in the
                 \* order the calls were started (kept in SpecRace only)
    voteTab      \* the vote tab of the page: its round, its slots, its requests

vars == <<mmState, lsMmState, lsMmUndo, inflight, last, ghost, run, steps, db, served,
          pending, voteTab>>

---------------------------------------------------------------------------
(* Bounds of the model *)

\* number of options in the candidate universe (62: the seed-16 band is partial)
NumOptions == 62
\* number of different rank orders the server answers with
NumRankings == 2
\* fetches in flight at once
MaxInFlight == 1
\* handler runs (a load is two: the call and the arrival of its response) in one
\* behaviour of Spec
MaxSteps == 6
\* accepted picks in a row from the fresh bracket in SpecLong
MaxLongPicks == 52
\* handler runs and outside writes to the storage in one behaviour of SpecFaulty
MaxFaultySteps == 6
\* number of regions in a response that has fewer than the server's four
ShortRegions == 2
\* calls of loadMadness in flight at once in SpecRace
MaxRaceLoads == 2
\* handler runs in one behaviour of SpecRace
MaxRaceSteps == 5
\* requests of the vote tab in flight at once in SpecVoteTab
MaxTabTasks == 2
\* rounds GET /api/next serves in one behaviour of SpecVoteTab
MaxRounds == 2
\* sets of five votes stored in one behaviour of SpecVoteTab
MaxStoredRounds == 2
\* requests in one behaviour of SpecVotes
MaxVoteSteps == 3
\* the largest number of options in the database of SpecServer
MaxOptions == 65
\* the largest number of vote rows in the database of SpecServer
MaxVotes == 2

(* Program constants *)

\* if (stack.length > 50) stack.shift()
UNDO_CAP == 50
\* for (let seed = 1; seed <= 16; seed++)
NUM_SEEDS == 16
\* ranked.slice(startIdx, startIdx + 4)
BAND_SIZE == 4

regionNames == <<"Bracket A", "Bracket B", "Bracket C", "Bracket D">>

\* mutant: neighbouring seeds are paired
FIRST_ROUND_PAIRS_adjacent ==
    << <<1, 2>>, <<3, 4>>, <<5, 6>>, <<7, 8>>,
       <<9, 10>>, <<11, 12>>, <<13, 14>>, <<15, 16>> >>

FIRST_ROUND_PAIRS ==
    << <<1, 16>>, <<8, 9>>, <<5, 12>>, <<4, 13>>,
       <<6, 11>>, <<3, 14>>, <<7, 10>>, <<2, 15>> >>

NoTeam == [id |-> 0, seed |-> 0]

Min(a, b) == IF a < b THEN a ELSE b

---------------------------------------------------------------------------
(* GET /api/brackets: the ranked list and its banded seeding *)

\* The rank order the server computes from the votes, as a sequence of option
\* ids.  Order 1 ranks the options by id; order r > 1 exchanges the entries
\* ranked 1 and 4(r-1)+1 (the seed-1 and seed-r teams of the first region),
\* which is what a change of the votes between two loads can do.
ranked(r) ==
    LET other == BAND_SIZE * (r - 1) + 1
    IN  [i \in 1..NumOptions |->
            [overallRank |-> i,
             id |-> IF r > 1 /\ other <= NumOptions /\ i = 1 THEN other
                    ELSE IF r > 1 /\ other <= NumOptions /\ i = other THEN 1
                    ELSE i]]

RECURSIVE seedLoop_snake(_, _, _)
\* mutant: the bands of the even seeds are dealt to the regions backwards
seedLoop_snake(rankedList, regions, seed) ==
    IF seed > NUM_SEEDS THEN regions
    ELSE LET startIdx == (seed - 1) * BAND_SIZE
             band == SubSeq(rankedList, startIdx + 1,
                            Min(startIdx + BAND_SIZE, Len(rankedList)))
             from(ri) == IF seed % 2 = 0 THEN Len(regions) + 1 - ri ELSE ri
         IN  seedLoop_snake(rankedList,
                      [ri \in 1..Len(regions) |->
                          IF from(ri) <= Len(band)
                          THEN [regions[ri] EXCEPT
                                  !.teams = Append(@, [id |-> band[from(ri)].id, seed |-> seed])]
                          ELSE regions[ri]],
                      seed + 1)

RECURSIVE seedLoop_uncapped(_, _, _)
\* mutant: the loop runs until the ranked list is used up
seedLoop_uncapped(rankedList, regions, seed) ==
    IF (seed - 1) * BAND_SIZE >= Len(rankedList) THEN regions
    ELSE LET startIdx == (seed - 1) * BAND_SIZE
             band == SubSeq(rankedList, startIdx + 1,
                            Min(startIdx + BAND_SIZE, Len(rankedList)))
         IN  seedLoop_uncapped(rankedList,
                      [ri \in 1..Len(regions) |->
                          IF ri <= Len(band)
                          THEN [regions[ri] EXCEPT
                                  !.teams = Append(@, [id |-> band[ri].id, seed |-> seed])]
                          ELSE regions[ri]],
                      seed + 1)

RECURSIVE seedLoop(_, _, _)
seedLoop(rankedList, regions, seed) ==
    IF seed > NUM_SEEDS THEN regions
    ELSE LET startIdx == (seed - 1) * BAND_SIZE
             band == SubSeq(rankedList, startIdx + 1,
                            Min(startIdx + BAND_SIZE, Len(rankedList)))
         IN  seedLoop(rankedList,
                      [ri \in 1..Len(regions) |->
                          IF ri <= Len(band)
                          THEN [regions[ri] EXCEPT
                                  !.teams = Append(@, [id |-> band[ri].id, seed |-> seed])]
                          ELSE regions[ri]],
                      seed + 1)

\* const regions = regionNames.map(...); the seed loop; (the sort by seed keeps
\* the order, the loop appends by ascending seed)
seedRegions(rankedList) ==
    seedLoop(rankedList,
             [ri \in 1..Len(regionNames) |-> [name |-> regionNames[ri], teams |-> <<>>]],
             1)

---------------------------------------------------------------------------
(* The aggregator of GET /api/brackets and GET /api/personal-bracket.

   An option is a row [id, title] of burger_club; a title is a sequence of
   collation weights, compared as localeCompare compares strings, position by
   position.  The table votes is a sequence of rows [tenant, option, rank,
   weight] (POST /api/vote only ever inserts, so rows may repeat); the
   weights 0.5 and 1 that POST /api/vote stores are kept in halves (1 and 2),
   so every sum is an integer.  An average is a fraction [num, den] of two
   sums, or null; the quotient the code computes in floating point is equal
   for two rows exactly when the fractions are (both sums are small multiples
   of 0.5, and IEEE division rounds equal quotients equally). *)

NullAvg == [isNull |-> TRUE, num |-> 0, den |-> 1]
Avg(num, den) == [isNull |-> FALSE, num |-> num, den |-> den]

\* the sequence f with its entries computed once
asTuple(f) == f \o <<>>

\* the term a vote row adds to SUM(v.weight), to SUM((6 - v.rank) * v.weight)
\* and to SUM(v.rank * v.weight)
term(v, column) ==
    IF column = "weight" THEN v.weight
    ELSE IF column = "points" THEN (6 - v.rank) * v.weight
    ELSE v.rank * v.weight

RECURSIVE sumOver(_, _, _)
\* SUM(column) over the rows of votes with the given indices
sumOver(column, votes, idxs) ==
    IF idxs = {} THEN 0
    ELSE LET i == CHOOSE x \in idxs : TRUE
         IN  term(votes[i], column) + sumOver(column, votes, idxs \ {i})

\* one row of the GROUP BY: COALESCE(SUM(v.weight),0) as votes,
\* SUM((6 - v.rank) * v.weight) / NULLIF(SUM(v.weight),0) as avg_points,
\* SUM(v.rank * v.weight) / NULLIF(SUM(v.weight),0) as avg_rank
groupRow(option, votes, joined) ==
    LET w == sumOver("weight", votes, joined)
    IN  [id |-> option.id, title |-> option.title, votes |-> w,
         avg_points |-> IF w = 0 THEN NullAvg
                        ELSE Avg(sumOver("points", votes, joined), w),
         avg_rank |-> IF w = 0 THEN NullAvg
                      ELSE Avg(sumOver("ranks", votes, joined), w)]

\* GET /api/brackets: FROM burger_club b LEFT JOIN votes v ON v.option_id = b.id
\* GROUP BY b.id : one row for every option, in the order of the ids
bracketRows(database) ==
    LET joined(o) == {i \in 1..Len(database.votes) : database.votes[i].option = o.id}
    IN  asTuple([i \in 1..Len(database.options) |->
                    groupRow(database.options[i], database.votes,
                             joined(database.options[i]))])

\* GET /api/personal-bracket: FROM burger_club o JOIN votes v ON v.option_id =
\* o.id AND v.tenant_id = ? GROUP BY o.id : one row for every option that has
\* a vote of the tenant, in the order of the ids
personalRows(database, tenantId) ==
    LET joined(o) == {i \in 1..Len(database.votes) :
                        /\ database.votes[i].option = o.id
                        /\ database.votes[i].tenant = tenantId}
        kept == SelectSeq(database.options, LAMBDA o : joined(o) # {})
    IN  asTuple([i \in 1..Len(kept) |->
                    groupRow(kept[i], database.votes, joined(kept[i]))])

\* the sign of x
sign(x) == IF x < 0 THEN -1 ELSE IF x > 0 THEN 1 ELSE 0

\* the sign of a - b for two averages, null counting as 0 (a.avg_points ?? 0)
avgDiff(a, b) == sign(a.num * b.den - b.num * a.den)

RECURSIVE localeCompare(_, _)
\* String(a.title).localeCompare(String(b.title)): negative, zero or positive
localeCompare(s, t) ==
    IF s = <<>> /\ t = <<>> THEN 0
    ELSE IF s = <<>> THEN -1
    ELSE IF t = <<>> THEN 1
    ELSE IF Head(s) # Head(t) THEN sign(Head(s) - Head(t))
    ELSE localeCompare(Tail(s), Tail(t))

\* mutant: ties of avg_points are broken by the title alone
compareRows_noVotes(a, b) ==
    IF avgDiff(b.avg_points, a.avg_points) # 0 THEN avgDiff(b.avg_points, a.avg_points)
    ELSE localeCompare(a.title, b.title)

\* the comparator of rows.sort: negative when a goes before b
compareRows(a, b) ==
    IF avgDiff(b.avg_points, a.avg_points) # 0 THEN avgDiff(b.avg_points, a.avg_points)
    ELSE IF b.votes # a.votes THEN sign(b.votes - a.votes)
    ELSE localeCompare(a.title, b.title)

\* rows.sort(comparator): Array.prototype.sort is stable, so a row goes
\* before another when the comparator says so, or when the comparator says
\* neither and it came first; its place is one more than the number of rows
\* that go before it
sortRows(rows) ==
    LET n == Len(rows)
        place == asTuple([i \in 1..n |->
                    1 + Cardinality({j \in 1..n :
                          \/ compareRows(rows[j], rows[i]) < 0
                          \/ compareRows(rows[j], rows[i]) = 0 /\ j < i})])
    IN  asTuple([p \in 1..n |-> rows[CHOOSE i \in 1..n : place[i] = p]])

\* mutant: the ranks are the array indices
rankRows_fromZero(rows) ==
    asTuple([idx \in 1..Len(rows) |->
        [overallRank |-> idx - 1, id |-> rows[idx].id, title |-> rows[idx].title,
         votes |-> rows[idx].votes, avgRank |-> rows[idx].avg_rank,
         avgPoints |-> rows[idx].avg_points]])

\* const ranked = rows.map((r, idx) => ({ overallRank: idx + 1, ... }))
rankRows(rows) ==
    asTuple([idx \in 1..Len(rows) |->
        [overallRank |-> idx, id |-> rows[idx].id, title |-> rows[idx].title,
         votes |-> rows[idx].votes, avgRank |-> rows[idx].avg_rank,
         avgPoints |-> rows[idx].avg_points]])

\* a database without a row
NoDatabase == [options |-> <<>>, votes |-> <<>>]

\* the answer of a request no one has made yet
NoAnswer == [kind |-> "none", tenant |-> 0, ranked |-> <<>>, regions |-> <<>>]

\* app.get("/api/brackets"): rows, sort, ranked, regions
getBrackets(database) ==
    LET rankedList == rankRows(sortRows(bracketRows(database)))
    IN  [kind |-> "brackets", tenant |-> 0,
         ranked |-> rankedList, regions |-> seedRegions(rankedList)]

\* app.get("/api/personal-bracket") for req.tenant.id = tenantId
getPersonalBracket(database, tenantId) ==
    LET rankedList == rankRows(sortRows(personalRows(database, tenantId)))
    IN  [kind |-> "personal", tenant |-> tenantId,
         ranked |-> rankedList, regions |-> seedRegions(rankedList)]

\* GET /api/compare, the statement run for one tenant: FROM burger_club o LEFT
\* JOIN votes v ON v.option_id = o.id AND v.tenant_id = ? GROUP BY o.id, with
\* COUNT(v.id) as votes and the weighted averages
compareRowsOf(database, tenantId) ==
    LET joined(o) == {i \in 1..Len(database.votes) :
                        /\ database.votes[i].option = o.id
                        /\ database.votes[i].tenant = tenantId}
    IN  asTuple([i \in 1..Len(database.options) |->
                    [groupRow(database.options[i], database.votes,
                              joined(database.options[i]))
                        EXCEPT !.votes = Cardinality(joined(database.options[i]))]])

\* rows.sort(...); rows.forEach((r, idx) => { map[r.id] = idx + 1 })
rankMap(rows) ==
    LET sorted == sortRows(rows)
    IN  [id \in {sorted[idx].id : idx \in 1..Len(sorted)} |->
            CHOOSE idx \in 1..Len(sorted) : sorted[idx].id = id]

\* app.get("/api/compare"): the rank map of every tenant
getCompare(database, tenants) ==
    [kind |-> "compare", tenant |-> 0, ranked |-> <<>>, regions |-> <<>>,
     ranksByTenant |-> [t \in tenants |-> rankMap(compareRowsOf(database, t))]]

---------------------------------------------------------------------------
(* The voting endpoints: GET /api/next, POST /api/vote, DELETE /api/vote/:id,
   DELETE /api/votes.

   Here a row of burger_club carries attended, the set of tenants whose column
   (paul, job, ...) is 1; legacy is the older table options, a function from
   ids to the set of tenants that its column attendees names; a row of votes
   carries its id; foreignKeys says whether the database enforces FOREIGN
   KEY(option_id) REFERENCES options(id) of the table votes (better-sqlite3
   does unless it is built or told otherwise). *)

\* the answer of the endpoint with an HTTP status and nothing else
statusOnly(kind, tenantId, status) == [kind |-> kind, tenant |-> tenantId, status |-> status]

\* new Set(seq).size
setSize(seq) == Cardinality({seq[i] : i \in 1..Len(seq)})

\* POST /api/vote: attended, for the tenant and one option: the tenant's column
\* of the burger_club row is 1, or else the attendees text of the row of the
\* same id in options names the tenant
attendedBy(database, tenantId, optionId) ==
    \/ \E i \in 1..Len(database.options) :
          /\ database.options[i].id = optionId
          /\ tenantId \in database.options[i].attended
    \/ /\ optionId \in DOMAIN database.legacy
       /\ tenantId \in database.legacy[optionId]

\* const weight = attended ? 1 : 0.5, in halves
voteWeight(database, tenantId, optionId) ==
    IF attendedBy(database, tenantId, optionId) THEN 2 ELSE 1

\* mutant: the ranks are not looked at
ranksValid_any(ranks) == TRUE

\* rankSet.size === 5 && ranks.every((x) => validRanks.includes(x))
ranksValid(ranks) ==
    /\ setSize(ranks) = 5
    /\ \A i \in 1..Len(ranks) : ranks[i] \in {1, 2, 3, 4, 5}

\* the rows the transaction of POST /api/vote inserts
insertedRows(database, tenantId, payload) ==
    [k \in 1..Len(payload.rankings) |->
        [id |-> database.nextVoteId + k - 1,
         tenant |-> tenantId,
         round |-> payload.roundId,
         option |-> payload.rankings[k].optionId,
         rank |-> payload.rankings[k].rank,
         weight |-> voteWeight(database, tenantId, payload.rankings[k].optionId)]]

\* app.post("/api/vote"): the status of the answer and the database afterwards
postVote(database, tenantId, payload) ==
    LET ranks == [k \in 1..Len(payload.rankings) |-> payload.rankings[k].rank]
        optionIds == [k \in 1..Len(payload.rankings) |-> payload.rankings[k].optionId]
        existing == {i \in 1..Len(database.options) :
                        \E k \in 1..Len(optionIds) : database.options[i].id = optionIds[k]}
        refused == /\ database.foreignKeys
                   /\ \E k \in 1..Len(optionIds) : optionIds[k] \notin DOMAIN database.legacy
    IN  IF payload.roundId = 0 \/ ~payload.isArray \/ Len(payload.rankings) # 5
        THEN [status |-> 400, db |-> database]
        ELSE IF ~ranksValid(ranks) THEN [status |-> 400, db |-> database]
        ELSE IF setSize(optionIds) # 5 THEN [status |-> 400, db |-> database]
        ELSE IF Cardinality(existing) # 5 THEN [status |-> 400, db |-> database]
        ELSE IF refused THEN [status |-> 500, db |-> database]
        ELSE [status |-> 200,
              db |-> [database EXCEPT
                         !.votes = @ \o insertedRows(database, tenantId, payload),
                         !.nextVoteId = @ + 5]]

\* mutant: the vote is deleted whoever asks
deleteVote_anyTenant(database, tenantId, id) ==
    IF id = 0 THEN [status |-> 400, db |-> database]
    ELSE IF ~\E i \in 1..Len(database.votes) : database.votes[i].id = id
    THEN [status |-> 404, db |-> database]
    ELSE [status |-> 200,
          db |-> [database EXCEPT !.votes = SelectSeq(@, LAMBDA v : v.id # id)]]

\* app.delete("/api/vote/:id")
deleteVote(database, tenantId, id) ==
    IF id = 0 THEN [status |-> 400, db |-> database]
    ELSE IF ~\E i \in 1..Len(database.votes) : database.votes[i].id = id
    THEN [status |-> 404, db |-> database]
    ELSE IF (CHOOSE v \in {database.votes[i] : i \in 1..Len(database.votes)} :
                v.id = id).tenant # tenantId
    THEN [status |-> 403, db |-> database]
    ELSE [status |-> 200,
          db |-> [database EXCEPT !.votes = SelectSeq(@, LAMBDA v : v.id # id)]]

\* app.delete("/api/votes"): DELETE FROM votes WHERE tenant_id = ?
deleteVotes(database, tenantId) ==
    [status |-> 200,
     db |-> [database EXCEPT !.votes = SelectSeq(@, LAMBDA v : v.tenant # tenantId)]]

RECURSIVE shuffle(_, _, _, _)
\* function shuffle(arr), from index i down (i counts from 1): j =
\* Math.floor(Math.random() * i) counted from 0, the values of Math.random()
\* being draws[used + 1], draws[used + 2], ... in hundredths
shuffle(arr, i, draws, used) ==
    IF i < 2 THEN arr
    ELSE LET j == ((draws[used + 1] * i) \div 100) + 1
         IN  shuffle([arr EXCEPT ![i] = arr[j], ![j] = arr[i]], i - 1, draws, used + 1)

\* mutant: the five are taken from all options shuffled together
nextPick_noPriority(counts, draws) ==
    SubSeq(shuffle(counts, Len(counts), draws, 0), 1, Min(5, Len(counts)))

\* [...need, ...rest].slice(0, 5)
nextPick(counts, draws) ==
    LET needed == SelectSeq(counts, LAMBDA c : c.timesRanked < 2)
        ranked2 == SelectSeq(counts, LAMBDA c : c.timesRanked >= 2)
        need == shuffle(needed, Len(needed), draws, 0)
        rest == shuffle(ranked2, Len(ranked2), draws,
                        IF Len(needed) > 0 THEN Len(needed) - 1 ELSE 0)
        all == need \o rest
    IN  SubSeq(all, 1, Min(5, Len(all)))

\* app.get("/api/next"): the counts per option, the pick, the answer
getNext(database, tenantId, draws) ==
    LET counts == [i \in 1..Len(database.options) |->
                      [id |-> database.options[i].id,
                       timesRanked |-> Cardinality({k \in 1..Len(database.votes) :
                            /\ database.votes[k].option = database.options[i].id
                            /\ database.votes[k].tenant = tenantId})]]
        pick == nextPick(asTuple(counts), draws)
    IN  IF Len(pick) < 5
        THEN [kind |-> "next", tenant |-> tenantId, status |-> 500, options |-> <<>>]
        ELSE [kind |-> "next", tenant |-> tenantId, status |-> 200, options |-> pick]

---------------------------------------------------------------------------
(* The vote tab of the page: loadNext5, placeOptionInSlot, validateRanks,
   submitVote.

   slotToOption is a function on the ranks 1..5 with 0 for a rank that is not
   in the Map; cards are the options renderVoteCards drew last; tasks are the
   async functions waiting for an answer, each with what it waits for; rounds
   are the option lists GET /api/next has answered with, the k-th under the
   roundId k. *)

\* validateRanks, with a seat selected: the value of btn.disabled it leaves
validateRanks(tab) ==
    [tab EXCEPT !.btnDisabled =
        \/ tab.currentRoundId = 0
        \/ Len(tab.currentOptions) # 5
        \/ Cardinality({rank \in 1..5 : tab.slotToOption[rank] # 0}) # 5
        \/ Cardinality({tab.slotToOption[rank] : rank \in 1..5}) # 5]

\* placeOptionInSlot(optionId, rank)
placeOptionInSlot(tab, optionId, rank) ==
    validateRanks([tab EXCEPT !.slotToOption =
        [r \in 1..5 |-> IF r = rank THEN optionId
                        ELSE IF tab.slotToOption[r] = optionId THEN 0
                        ELSE tab.slotToOption[r]]])

\* submitVote: const payload = { roundId: currentRoundId, rankings: ... }
submitPayload(tab) ==
    [roundId |-> tab.currentRoundId, isArray |-> TRUE,
     rankings |-> [rank \in 1..5 |-> [optionId |-> tab.slotToOption[rank], rank |-> rank]]]

\* a task that waits for the answer to a request; chained says that the
\* loadNext5 it belongs to was called by submitVote, which goes on to
\* refreshProgress
task(waitsFor, payload, chained) ==
    [waitsFor |-> waitsFor, payload |-> payload, chained |-> chained]

\* no request body
NoPayload == [roundId |-> 0, isArray |-> FALSE, rankings |-> <<>>]

\* the tasks without the i-th
without(tasks, i) == SubSeq(tasks, 1, i - 1) \o SubSeq(tasks, i + 1, Len(tasks))

\* submitVote up to its await: nothing when the button is disabled, else the
\* payload is sent
submitVote(tab) ==
    IF tab.btnDisabled THEN tab
    ELSE [tab EXCEPT !.tasks = Append(@, task("post", submitPayload(tab), FALSE))]

\* loadNext5 up to its first await: GET /api/next is sent
loadNext5Start(tab, chained) ==
    [tab EXCEPT !.tasks = Append(@, task("next", NoPayload, chained))]

\* what follows a loadNext5 that submitVote awaited: refreshProgress sends GET
\* /api/progress
afterLoadNext5(tab, chained) ==
    IF chained THEN [tab EXCEPT !.tasks = Append(@, task("progress", NoPayload, FALSE))]
    ELSE tab

\* loadNext5 after ensureBurgerClubAttendanceFresh: slotToOption = new Map(),
\* renderVoteCards(), validateRanks()
loadNext5Finish(tab, chained) ==
    afterLoadNext5(
        validateRanks([tab EXCEPT !.slotToOption = [rank \in 1..5 |-> 0],
                                  !.cards = tab.currentOptions]),
        chained)

\* loadNext5 when the answer to GET /api/next is there: an error is caught and
\* shown; else currentRoundId and currentOptions are assigned, and the function
\* goes on at once when the attendance cache is fresh, or waits for GET
\* /api/burger-club
loadNext5Answered(tab, i, answer, fresh) ==
    LET chained == tab.tasks[i].chained
        rest == [tab EXCEPT !.tasks = without(@, i)]
        roundId == Len(tab.rounds) + 1
        optionIds == [k \in 1..Len(answer.options) |-> answer.options[k].id]
        got == [rest EXCEPT !.currentRoundId = roundId,
                            !.currentOptions = optionIds,
                            !.rounds = Append(@, optionIds)]
    IN  IF answer.status # 200 THEN afterLoadNext5(rest, chained)
        ELSE IF fresh THEN loadNext5Finish(got, chained)
        ELSE [got EXCEPT !.tasks = Append(@, task("attendance", NoPayload, chained))]

\* loadNext5 when the answer to GET /api/burger-club is there
attendanceAnswered(tab, i) ==
    loadNext5Finish([tab EXCEPT !.tasks = without(@, i)], tab.tasks[i].chained)

\* submitVote when the answer to POST /api/vote is there: loadNext5 is called,
\* or the error is caught and shown
submitVoteAnswered(tab, i, status) ==
    LET rest == [tab EXCEPT !.tasks = without(@, i)]
    IN  IF status = 200 THEN loadNext5Start(rest, TRUE) ELSE rest

\* refreshProgress when the answer to GET /api/progress is there
progressAnswered(tab, i) ==
    LET rest == [tab EXCEPT !.tasks = without(@, i)]
    IN  IF Len(rest.currentOptions) = 0 THEN loadNext5Start(rest, FALSE)
        ELSE validateRanks(rest)

---------------------------------------------------------------------------
(* public/app.js: construction of the game graph *)

gid(name, type, i) == name \o "-" \o type \o "-" \o ToString(i)

\* new Map(teams.map(t => [t.seed, t])).get(seed) || null : the last team
\* with that seed, or null
bySeedGet(teams, seed) ==
    LET hits == {i \in 1..Len(teams) : teams[i].seed = seed}
    IN  IF hits = {} THEN NoTeam
        ELSE teams[CHOOSE i \in hits : \A j \in hits : j <= i]

leafGame(id, a, b) ==
    [id |-> id, type |-> "r64", a |-> a, b |-> b,
     aGame |-> "", bGame |-> "", winnerId |-> 0]

innerGame(id, type, aGame, bGame) ==
    [id |-> id, type |-> type, a |-> NoTeam, b |-> NoTeam,
     aGame |-> aGame, bGame |-> bGame, winnerId |-> 0]

buildRegionRounds(region) ==
    [r64 |-> [k \in 1..Len(FIRST_ROUND_PAIRS) |->
                leafGame(gid(region.name, "r64", k - 1),
                         bySeedGet(region.teams, FIRST_ROUND_PAIRS[k][1]),
                         bySeedGet(region.teams, FIRST_ROUND_PAIRS[k][2]))],
     r32 |-> [k \in 1..4 |->
                innerGame(gid(region.name, "r32", k - 1), "r32",
                          gid(region.name, "r64", (k - 1) * 2),
                          gid(region.name, "r64", (k - 1) * 2 + 1))],
     s16 |-> [k \in 1..2 |->
                innerGame(gid(region.name, "s16", k - 1), "s16",
                          gid(region.name, "r32", (k - 1) * 2),
                          gid(region.name, "r32", (k - 1) * 2 + 1))],
     e8  |-> << innerGame(gid(region.name, "e8", 0), "e8",
                          gid(region.name, "s16", 0),
                          gid(region.name, "s16", 1)) >>]

RECURSIVE flatten(_)
flatten(seqs) == IF seqs = <<>> THEN <<>> ELSE Head(seqs) \o flatten(Tail(seqs))

\* an array index past the end reads undefined; as an object key it is "undefined"
at(seq, i) == IF i <= Len(seq) THEN seq[i] ELSE "undefined"

\* mutant: the dependency index points upstream (addDep(to, from))
depEdges_back(g) == << <<g.id, g.aGame>>, <<g.id, g.bGame>> >>

\* mutant: only side A's game is filed in the dependency index
depEdges_aOnly(g) == << <<g.aGame, g.id>> >>

\* the two addDep calls made for an internal game
depEdges(g) == << <<g.aGame, g.id>>, <<g.bGame, g.id>> >>

\* mutant: the final-four games take regions 0 and 2, and 1 and 3
gameList_crossed(regions) ==
    LET blocks == [ri \in 1..Len(regions) |-> buildRegionRounds(regions[ri])]
        e8Winners == [ri \in 1..Len(regions) |-> blocks[ri].e8[1].id]
    IN  flatten([ri \in 1..Len(regions) |->
                    blocks[ri].r64 \o blocks[ri].r32 \o blocks[ri].s16 \o blocks[ri].e8])
        \o << innerGame("ff-0", "ff", at(e8Winners, 1), at(e8Winners, 3)),
              innerGame("ff-1", "ff", at(e8Winners, 2), at(e8Winners, 4)),
              innerGame("final-0", "final", "ff-0", "ff-1") >>

\* every game object in the order loadMadness stores it into `games`
gameList(regions) ==
    LET blocks == [ri \in 1..Len(regions) |-> buildRegionRounds(regions[ri])]
        e8Winners == [ri \in 1..Len(regions) |-> blocks[ri].e8[1].id]
    IN  flatten([ri \in 1..Len(regions) |->
                    blocks[ri].r64 \o blocks[ri].r32 \o blocks[ri].s16 \o blocks[ri].e8])
        \o << innerGame("ff-0", "ff", at(e8Winners, 1), at(e8Winners, 2)),
              innerGame("ff-1", "ff", at(e8Winners, 3), at(e8Winners, 4)),
              innerGame("final-0", "final", "ff-0", "ff-1") >>

\* games[g.id] = g : a later object with the same id replaces an earlier one
buildGames(regions) ==
    LET gl == gameList(regions)
    IN  [id \in {gl[i].id : i \in 1..Len(gl)} |->
            gl[CHOOSE i \in 1..Len(gl) :
                  gl[i].id = id /\ \A j \in 1..Len(gl) : gl[j].id = id => j <= i]]

\* addDep(from, to) for every internal game, in the order of the calls
buildDependents(regions) ==
    LET gl == gameList(regions)
        edges == flatten([i \in 1..Len(gl) |->
                            IF gl[i].type = "r64" THEN <<>> ELSE depEdges(gl[i])])
    IN  [from \in {edges[i][1] : i \in 1..Len(edges)} |->
            LET mine == SelectSeq(edges, LAMBDA e : e[1] = from)
            IN  [k \in 1..Len(mine) |-> mine[k][2]]]

\* regions.forEach(r => r.teams.forEach(t => teamsById.set(t.id, t)))
buildTeamsById(regions) ==
    LET all == flatten([ri \in 1..Len(regions) |-> regions[ri].teams])
    IN  [id \in {all[i].id : i \in 1..Len(all)} |->
            all[CHOOSE i \in 1..Len(all) :
                   all[i].id = id /\ \A j \in 1..Len(all) : all[j].id = id => j <= i]]

\* mmState = null
NullState == [isNull |-> TRUE, games |-> <<>>, dependents |-> <<>>, teamsById |-> <<>>]

\* mmState = { regionBlocks, games, dependents, teamsById }
buildState(regions) ==
    [isNull |-> FALSE,
     games |-> buildGames(regions),
     dependents |-> buildDependents(regions),
     teamsById |-> buildTeamsById(regions)]

---------------------------------------------------------------------------
(* public/app.js: occupants, cascade, snapshots, persistence *)

getWinnerTeam(st, gameId) ==
    IF gameId \notin DOMAIN st.games THEN NoTeam
    ELSE LET g == st.games[gameId]
         IN  IF g.type = "r64"
             THEN IF g.winnerId # 0 /\ g.a # NoTeam /\ g.winnerId = g.a.id THEN g.a
                  ELSE IF g.winnerId # 0 /\ g.b # NoTeam /\ g.winnerId = g.b.id THEN g.b
                  ELSE NoTeam
             ELSE IF g.winnerId # 0 /\ g.winnerId \in DOMAIN st.teamsById
                  THEN st.teamsById[g.winnerId]
                  ELSE NoTeam

getGameTeams(st, gameId) ==
    IF gameId \notin DOMAIN st.games THEN [a |-> NoTeam, b |-> NoTeam]
    ELSE LET g == st.games[gameId]
         IN  IF g.type = "r64" THEN [a |-> g.a, b |-> g.b]
             ELSE [a |-> IF g.aGame # "" THEN getWinnerTeam(st, g.aGame) ELSE NoTeam,
                   b |-> IF g.bGame # "" THEN getWinnerTeam(st, g.bGame) ELSE NoTeam]

\* mutant: the cascade clears every game of a later round, of any branch
clearDownstream_laterRounds(games, dependents, fromGameId) ==
    [id \in DOMAIN games |->
        IF id # fromGameId /\ games[id].type # "r64"
        THEN [games[id] EXCEPT !.winnerId = 0] ELSE games[id]]

\* mutant: the cascade stops at the direct dependents
clearDownstream_direct(games, dependents, fromGameId) ==
    LET deps == IF fromGameId \in DOMAIN dependents THEN dependents[fromGameId] ELSE <<>>
    IN  [id \in DOMAIN games |->
            IF \E k \in 1..Len(deps) : deps[k] = id
            THEN [games[id] EXCEPT !.winnerId = 0] ELSE games[id]]

RECURSIVE clearDownstream(_, _, _)
RECURSIVE clearEach(_, _, _)
\* deps.forEach(depId => { if (dep) dep.winnerId = null; clearDownstream(depId) })
clearEach(games, dependents, deps) ==
    IF deps = <<>> THEN games
    ELSE LET depId == Head(deps)
             cleared == IF depId \in DOMAIN games
                        THEN [games EXCEPT ![depId].winnerId = 0]
                        ELSE games
         IN  clearEach(clearDownstream(cleared, dependents, depId), dependents, Tail(deps))

clearDownstream(games, dependents, fromGameId) ==
    clearEach(games, dependents,
              IF fromGameId \in DOMAIN dependents THEN dependents[fromGameId] ELSE <<>>)

\* mutant: a snapshot is a delta, it records the games that have a winner
snapshotMadness_delta(games) ==
    [id \in {i \in DOMAIN games : games[i].winnerId # 0} |-> games[id].winnerId]

\* snap[id] = g.winnerId || null, for every game
snapshotMadness(games) == [id \in DOMAIN games |-> games[id].winnerId]

\* mutant: an entry whose id names no game creates one
applyMadnessSnapshot_create(games, snap) ==
    [id \in DOMAIN games \cup DOMAIN snap |->
        IF id \notin DOMAIN games
        THEN [leafGame(id, NoTeam, NoTeam) EXCEPT !.winnerId = snap[id]]
        ELSE IF id \in DOMAIN snap THEN [games[id] EXCEPT !.winnerId = snap[id]]
        ELSE games[id]]

\* if (mmState.games[id]) mmState.games[id].winnerId = winnerId, for every entry
applyMadnessSnapshot(games, snap) ==
    [id \in DOMAIN games |->
        IF id \in DOMAIN snap THEN [games[id] EXCEPT !.winnerId = snap[id]] ELSE games[id]]

\* a localStorage item: absent, or the JSON text of a value of the shape the
\* code writes (an object keyed by game id, an array of such objects)
Absent == [kind |-> "absent", val |-> <<>>]
Json(v) == [kind |-> "json", val |-> v]
\* a text JSON.parse rejects
Unparsable == [kind |-> "text", val |-> <<>>]
\* a text JSON.parse accepts whose value is no array and has no game id as a
\* key (null, a number, a string, {})
OtherJson == [kind |-> "other", val |-> <<>>]

\* localStorage.setItem(key, text): the item is replaced, or the call throws
\* (quota exceeded, storage disabled) and the item stays
setItem(item, new, ok) == IF ok THEN new ELSE item

\* localStorage.setItem("mmState", JSON.stringify(snapshot))
persistMadness(games) == Json(snapshotMadness(games))

\* mutant: only first-round winners are restored
restoreMadness_leaves(games, item) ==
    IF item.kind = "json"
    THEN applyMadnessSnapshot(games,
             [id \in {i \in DOMAIN item.val : i \in DOMAIN games /\ games[i].type = "r64"}
                 |-> item.val[id]])
    ELSE games

\* const raw = localStorage.getItem("mmState"); if (!raw) return; apply every
\* entry.  JSON.parse throwing, or Object.entries throwing on null, is caught;
\* the entries of any other value name no game.
restoreMadness(games, item) ==
    IF item.kind = "json" THEN applyMadnessSnapshot(games, item.val) ELSE games

\* JSON.parse(localStorage.getItem("mmUndo") || "[]"), [] when JSON.parse
\* throws.  A parsed value that is no array is returned as it is (see isArray).
getUndoStack(item) == IF item.kind = "json" THEN item.val ELSE <<>>

\* whether what getUndoStack returns has push, pop and shift: stack.push(...)
\* and stack.pop() throw a TypeError on anything else
isArray(item) == item.kind # "other"

\* localStorage.setItem("mmUndo", JSON.stringify(stack || []))
setUndoStack(stack) == Json(stack)

\* mutant: the oldest snapshot is dropped one push early (>= for >)
pushUndoSnapshot_early(stack, snap) ==
    LET pushed == Append(stack, snap)
    IN  IF Len(pushed) >= UNDO_CAP THEN Tail(pushed) ELSE pushed

\* mutant: at capacity the newest snapshot is dropped (pop for shift)
pushUndoSnapshot_pop(stack, snap) ==
    LET pushed == Append(stack, snap)
    IN  IF Len(pushed) > UNDO_CAP THEN SubSeq(pushed, 1, Len(pushed) - 1) ELSE pushed

\* stack.push(snapshotMadness()); if (stack.length > 50) stack.shift()
pushUndoSnapshot(stack, snap) ==
    LET pushed == Append(stack, snap)
    IN  IF Len(pushed) > UNDO_CAP THEN Tail(pushed) ELSE pushed

\* mutant: any team is accepted once an occupant is resolved
validPick_anyTeam(teams, teamId) == teams.a # NoTeam \/ teams.b # NoTeam

\* const valid = (a && a.id === teamId) || (b && b.id === teamId)
validPick(teams, teamId) ==
    \/ teams.a # NoTeam /\ teams.a.id = teamId
    \/ teams.b # NoTeam /\ teams.b.id = teamId

\* mutant: no toggle, the winner is always set
applyPick_noToggle(st, gameId, teamId) ==
    clearDownstream([st.games EXCEPT ![gameId].winnerId = teamId], st.dependents, gameId)

\* mutant: the picked team is also stored as an occupant of the dependent games
applyPick_storeOccupant(st, gameId, teamId) ==
    LET g == st.games[gameId]
        w == IF g.winnerId = teamId THEN 0 ELSE teamId
        picked == clearDownstream([st.games EXCEPT ![gameId].winnerId = w],
                                  st.dependents, gameId)
        deps == IF gameId \in DOMAIN st.dependents
                THEN {st.dependents[gameId][k] : k \in 1..Len(st.dependents[gameId])}
                ELSE {}
    IN  [id \in DOMAIN picked |->
            IF id \in deps /\ w # 0 /\ w \in DOMAIN st.teamsById
            THEN [picked[id] EXCEPT !.a = st.teamsById[w]]
            ELSE picked[id]]

\* the branch of pickWinner after pushUndoSnapshot: toggle off or set, then cascade
applyPick(st, gameId, teamId) ==
    LET g == st.games[gameId]
        w == IF g.winnerId = teamId THEN 0 ELSE teamId
    IN  clearDownstream([st.games EXCEPT ![gameId].winnerId = w], st.dependents, gameId)

\* Object.keys(games).forEach(id => games[id].winnerId = null); applyMadnessSnapshot(last)
applyUndo(games, lastSnap) ==
    applyMadnessSnapshot([id \in DOMAIN games |-> [games[id] EXCEPT !.winnerId = 0]], lastSnap)

---------------------------------------------------------------------------
(* The handlers, as changes of mmState and of the two localStorage items *)

\* mutant: the undo snapshot is taken after the pick has been applied
pickWinner_snapAfter(gameId, teamId) ==
    /\ ~mmState.isNull
    /\ IF gameId \notin DOMAIN mmState.games
       THEN UNCHANGED <<mmState, lsMmState, lsMmUndo>>
       ELSE IF ~validPick(getGameTeams(mmState, gameId), teamId)
       THEN UNCHANGED <<mmState, lsMmState, lsMmUndo>>
       ELSE LET games2 == applyPick(mmState, gameId, teamId)
            IN  /\ lsMmUndo' = setUndoStack(
                       pushUndoSnapshot(getUndoStack(lsMmUndo), snapshotMadness(games2)))
                /\ mmState' = [mmState EXCEPT !.games = games2]
                /\ lsMmState' = persistMadness(games2)

\* whether pickWinner(gameId, teamId) ends in an exception: pushUndoSnapshot
\* has no try/catch around stack.push (a TypeError on a parsed value that is no
\* array) and around localStorage.setItem("mmUndo", ...)
pickWinnerThrows(gameId, teamId, undoOk) ==
    /\ gameId \in DOMAIN mmState.games
    /\ validPick(getGameTeams(mmState, gameId), teamId)
    /\ (~isArray(lsMmUndo) \/ ~undoOk)

\* pickWinner when the write of "mmUndo" succeeds (undoOk) or throws, and the
\* write of "mmState" succeeds (stateOk) or throws inside persistMadness's try
pickWinnerIO(gameId, teamId, undoOk, stateOk) ==
    /\ ~mmState.isNull
    /\ IF gameId \notin DOMAIN mmState.games
       THEN UNCHANGED <<mmState, lsMmState, lsMmUndo>>
       ELSE IF ~validPick(getGameTeams(mmState, gameId), teamId)
       THEN UNCHANGED <<mmState, lsMmState, lsMmUndo>>
       ELSE IF pickWinnerThrows(gameId, teamId, undoOk)
       THEN UNCHANGED <<mmState, lsMmState, lsMmUndo>>
       ELSE LET games2 == applyPick(mmState, gameId, teamId)
            IN  /\ lsMmUndo' = setUndoStack(
                       pushUndoSnapshot(getUndoStack(lsMmUndo),
                                        snapshotMadness(mmState.games)))
                /\ mmState' = [mmState EXCEPT !.games = games2]
                /\ lsMmState' = setItem(lsMmState, persistMadness(games2), stateOk)

\* pickWinner with a storage that takes every write
pickWinner(gameId, teamId) == pickWinnerIO(gameId, teamId, TRUE, TRUE)

\* mutant: the oldest snapshot is taken (shift for pop)
undoMadness_shift ==
    IF mmState.isNull
    THEN UNCHANGED <<mmState, lsMmState, lsMmUndo>>
    ELSE LET stack == getUndoStack(lsMmUndo)
         IN  IF stack = <<>>
             THEN /\ lsMmUndo' = setUndoStack(<<>>)
                  /\ UNCHANGED <<mmState, lsMmState>>
             ELSE LET games2 == applyUndo(mmState.games, stack[1])
                  IN  /\ lsMmUndo' = setUndoStack(Tail(stack))
                      /\ mmState' = [mmState EXCEPT !.games = games2]
                      /\ lsMmState' = persistMadness(games2)

\* mutant: no early return on an empty stack, every winner is cleared
undoMadness_noReturn ==
    IF mmState.isNull
    THEN UNCHANGED <<mmState, lsMmState, lsMmUndo>>
    ELSE LET stack == getUndoStack(lsMmUndo)
             games2 == applyUndo(mmState.games,
                                 IF stack = <<>> THEN <<>> ELSE stack[Len(stack)])
         IN  /\ lsMmUndo' = setUndoStack(SubSeq(stack, 1, Len(stack) - 1))
             /\ mmState' = [mmState EXCEPT !.games = games2]
             /\ lsMmState' = persistMadness(games2)

\* whether undoMadness ends in an exception: stack.pop() on a parsed value
\* that is no array, or setUndoStack's localStorage.setItem throwing
undoMadnessThrows(undoOk) ==
    /\ ~mmState.isNull
    /\ (~isArray(lsMmUndo) \/ ~undoOk)

\* undoMadness when the write of "mmUndo" succeeds (undoOk) or throws, and the
\* write of "mmState" succeeds (stateOk) or throws inside persistMadness's try
undoMadnessIO(undoOk, stateOk) ==
    IF mmState.isNull \/ undoMadnessThrows(undoOk)
    THEN UNCHANGED <<mmState, lsMmState, lsMmUndo>>
    ELSE LET stack == getUndoStack(lsMmUndo)
         IN  IF stack = <<>>
             THEN /\ lsMmUndo' = setUndoStack(<<>>)
                  /\ UNCHANGED <<mmState, lsMmState>>
             ELSE LET games2 == applyUndo(mmState.games, stack[Len(stack)])
                  IN  /\ lsMmUndo' = setUndoStack(SubSeq(stack, 1, Len(stack) - 1))
                      /\ mmState' = [mmState EXCEPT !.games = games2]
                      /\ lsMmState' = setItem(lsMmState, persistMadness(games2), stateOk)

\* undoMadness with a storage that takes every write
undoMadness == undoMadnessIO(TRUE, TRUE)

\* the response of one GET /api/brackets: the seeded regions of rank order r
\* (n of them), a body without a regions array, or a failed fetch
okResponse(r) == [kind |-> "ok", r |-> r, n |-> Len(regionNames)]
shortResponse == [kind |-> "ok", r |-> 1, n |-> ShortRegions]
noRegionsResponse == [kind |-> "noRegions", r |-> 0, n |-> 0]
errResponse == [kind |-> "error", r |-> 0, n |-> 0]

\* what loadMadness builds from the first n regions of the r-th answer, before
\* restoreMadness
built ==
    [r \in 1..NumRankings |->
        [n \in {ShortRegions, Len(regionNames)} |->
            buildState(SubSeq(seedRegions(ranked(r)), 1, n))]]

\* how a run of loadMadness ends: the bracket is rendered; the message
\* "Unexpected response." is shown and the function returns; or the promise is
\* rejected, by api() throwing or by renderMadness reading .rounds of the
\* missing blocks[2] or blocks[3] of a state with fewer than four region blocks
loadMadnessOutcome(resp) ==
    IF resp.kind = "error" THEN "rejected"
    ELSE IF resp.kind = "noRegions" THEN "message"
    ELSE IF resp.n < 4 THEN "rejected"
    ELSE "rendered"

\* loadMadness up to its await: the fetch is issued
loadMadnessStart == inflight' = inflight + 1

\* mutant: a response without regions is built into a graph all the same
loadMadnessFinish_partial(resp) ==
    /\ inflight > 0
    /\ inflight' = inflight - 1
    /\ IF resp.kind = "ok"
       THEN mmState' = [built[resp.r][resp.n] EXCEPT
                           !.games = restoreMadness(built[resp.r][resp.n].games, lsMmState)]
       ELSE IF resp.kind = "noRegions"
       THEN mmState' = buildState(<<>>)
       ELSE UNCHANGED mmState
    /\ UNCHANGED <<lsMmState, lsMmUndo>>

\* loadMadness after its await, when the response of one outstanding fetch is resp
loadMadnessFinish(resp) ==
    /\ inflight > 0
    /\ inflight' = inflight - 1
    /\ IF resp.kind = "ok"
       THEN mmState' = [built[resp.r][resp.n] EXCEPT
                           !.games = restoreMadness(built[resp.r][resp.n].games, lsMmState)]
       ELSE UNCHANGED mmState
    /\ UNCHANGED <<lsMmState, lsMmUndo>>

---------------------------------------------------------------------------
(* History variables: what the last call was and what it did *)

\* the non-null part of a winner map, as a set of <<game id, winner id>>
picksOf(games) == {<<id, games[id].winnerId>> : id \in {i \in DOMAIN games : games[i].winnerId # 0}}

\* the same for a stored snapshot
picksOfSnap(snap) == {<<id, snap[id]>> : id \in {i \in DOMAIN snap : snap[i] # 0}}

occupantIds(st, gameId) ==
    LET t == getGameTeams(st, gameId) IN {t.a.id, t.b.id} \ {0}

\* the history keeps the most recent UNDO_CAP entries
window(h) == IF Len(h) > UNDO_CAP THEN Tail(h) ELSE h

range(f) == {f[x] : x \in DOMAIN f}

RECURSIVE reach(_, _, _)
reach(dependents, S, n) ==
    LET more == S \cup UNION {range(dependents[x]) : x \in S \cap DOMAIN dependents}
    IN  IF n = 0 \/ more = S THEN S ELSE reach(dependents, more, n - 1)

\* every game reachable from gameId along DependencyIndex edges (gameId excluded)
TransDeps(st, gameId) ==
    IF gameId \notin DOMAIN st.dependents THEN {}
    ELSE reach(st.dependents, range(st.dependents[gameId]), Cardinality(DOMAIN st.games))

\* `last` describes the call that led to the current state:
\*   op        "pick", "undo", "load", "reset", "loaded" ("init" before any)
\*   inGraph   pick: the game id named a game of the graph
\*   occ       pick: how many occupants of the game were resolved
\*   isOcc     pick: the team was one of the resolved occupants
\*   changed   the call changed the bracket state or a stored item
\*             (undo: it popped a snapshot; loaded: a graph was built)
\*   gameId, teamId, was   accepted pick: its arguments and the game's winner before
\*   cascade   accepted pick: how many transitive dependents had a winner before;
\*             undo right after an accepted pick: that pick's number
\*   repeat    accepted pick: the call right before was an accepted pick of the
\*             same team in the same game that had set the winner
\*   afterPick undo: the call right before was an accepted pick
\*   threw     pick, undo: the call ended in an exception
\*   undoOk, stateOk   pick, undo: FALSE when the call's write of "mmUndo" /
\*             of "mmState" was made and failed
\*   outcome   loaded: how loadMadness ended (loadMadnessOutcome)
\*   r, n      loaded: the rank order and the number of regions of the response
\*   item, blob   spoil: the storage item overwritten from outside, and with what
NoCall == [op |-> "init", inGraph |-> FALSE, occ |-> 0, isOcc |-> FALSE,
           changed |-> FALSE, gameId |-> "", teamId |-> 0, was |-> 0,
           cascade |-> 0, repeat |-> FALSE, afterPick |-> FALSE,
           threw |-> FALSE, undoOk |-> TRUE, stateOk |-> TRUE,
           outcome |-> "", r |-> 0, n |-> 0, item |-> "", blob |-> ""]

\* `run`: the run of accepted picks (k) and then undo calls (u) since a fresh
\* bracket, and whether the reset button was clicked and a fetch is still out
RunOff == [phase |-> "off", k |-> 0, u |-> 0, reset |-> FALSE]
RunFresh == [phase |-> "picking", k |-> 0, u |-> 0, reset |-> FALSE]

\* no fetch of loadMadness followed: calls are the answers still on their
\* way, newest is the answer to the call started last, raced says that this
\* call was started while another was in flight
NoPending == [calls |-> <<>>, newest |-> errResponse, raced |-> FALSE]

\* the vote tab before its first round: let currentRoundId = null, let
\* currentOptions = [], let slotToOption = new Map(); no card rendered, the
\* submit button disabled, no request in flight, no round served
NoVoteTab ==
    [currentRoundId |-> 0,
     currentOptions |-> <<>>,
     slotToOption |-> [rank \in 1..5 |-> 0],
     cards |-> <<>>,
     btnDisabled |-> TRUE,
     tasks |-> <<>>,
     rounds |-> <<>>]

\* the page before its first load
InitPage ==
    /\ mmState = NullState
    /\ lsMmState = Absent
    /\ lsMmUndo = Absent
    /\ inflight = 0
    /\ last = NoCall
    /\ ghost = <<>>
    /\ run = RunOff
    /\ steps = 0
    /\ pending = NoPending
    /\ voteTab = NoVoteTab

Init ==
    /\ InitPage
    /\ db = NoDatabase
    /\ served = NoAnswer

\* what the history variables record of a call of pickWinner
PickHistory(gameId, teamId, undoOk, stateOk) ==
    /\ LET changed == mmState' # mmState \/ lsMmUndo' # lsMmUndo \/ lsMmState' # lsMmState
           inGraph == gameId \in DOMAIN mmState.games
           isOcc == teamId \in occupantIds(mmState, gameId)
           valid == inGraph /\ isOcc
       IN  /\ last' = [NoCall EXCEPT
                       !.op = "pick",
                       !.inGraph = inGraph,
                       !.occ = Cardinality(occupantIds(mmState, gameId)),
                       !.isOcc = isOcc,
                       !.changed = changed,
                       !.gameId = IF valid THEN gameId ELSE "",
                       !.teamId = IF valid THEN teamId ELSE 0,
                       !.was = IF valid THEN mmState.games[gameId].winnerId ELSE 0,
                       !.cascade = IF valid
                                   THEN Cardinality({d \in TransDeps(mmState, gameId) :
                                                        mmState.games[d].winnerId # 0})
                                   ELSE 0,
                       !.repeat = /\ changed
                                  /\ last.op = "pick" /\ last.changed
                                  /\ last.gameId = gameId /\ last.teamId = teamId
                                  /\ last.was # teamId,
                       !.threw = pickWinnerThrows(gameId, teamId, undoOk),
                       !.undoOk = ((valid /\ isArray(lsMmUndo)) => undoOk),
                       !.stateOk = (changed => stateOk)]
           /\ ghost' = IF changed THEN window(Append(ghost, picksOf(mmState.games)))
                       ELSE ghost
           /\ run' = IF ~changed THEN run
                     ELSE IF run.phase = "picking" THEN [run EXCEPT !.k = @ + 1]
                     ELSE [RunOff EXCEPT !.reset = run.reset]
    /\ UNCHANGED <<inflight, db, served, pending, voteTab>>

\* a click on a team button, or any other call of pickWinner(gameId, teamId)
PickCall(gameId, teamId) ==
    /\ pickWinner(gameId, teamId)
    /\ PickHistory(gameId, teamId, TRUE, TRUE)

\* the same call on a storage whose writes succeed or throw as undoOk and
\* stateOk say
PickCallIO(gameId, teamId, undoOk, stateOk) ==
    /\ pickWinnerIO(gameId, teamId, undoOk, stateOk)
    /\ PickHistory(gameId, teamId, undoOk, stateOk)

\* what the history variables record of a call of undoMadness
UndoHistory(undoOk, stateOk) ==
    /\ LET threw == undoMadnessThrows(undoOk)
           popped == ~mmState.isNull /\ ~threw /\ getUndoStack(lsMmUndo) # <<>>
           afterPick == last.op = "pick" /\ last.changed
       IN  /\ last' = [NoCall EXCEPT !.op = "undo", !.changed = popped,
                                     !.afterPick = afterPick,
                                     !.cascade = IF afterPick THEN last.cascade ELSE 0,
                                     !.threw = threw,
                                     !.undoOk = ((~mmState.isNull /\ isArray(lsMmUndo))
                                                    => undoOk),
                                     !.stateOk = (popped => stateOk)]
           /\ ghost' = IF popped /\ ghost # <<>>
                       THEN SubSeq(ghost, 1, Len(ghost) - 1) ELSE ghost
           /\ run' = IF run.phase = "picking" /\ run.k = 0 THEN run
                     ELSE IF run.phase \in {"picking", "undoing"}
                     THEN [run EXCEPT !.phase = "undoing", !.u = @ + 1]
                     ELSE [RunOff EXCEPT !.reset = run.reset]
    /\ UNCHANGED <<inflight, db, served, pending, voteTab>>

\* a click on the undo button
UndoCall ==
    /\ undoMadness
    /\ UndoHistory(TRUE, TRUE)

\* the same click on a storage whose writes succeed or throw as undoOk and
\* stateOk say
UndoCallIO(undoOk, stateOk) ==
    /\ undoMadnessIO(undoOk, stateOk)
    /\ UndoHistory(undoOk, stateOk)

\* what the history variables record of a start of loadMadness
LoadHistory ==
    /\ last' = [NoCall EXCEPT !.op = "load"]
    /\ UNCHANGED <<mmState, lsMmState, lsMmUndo, ghost, run, db, served, voteTab>>

\* switchTab("madness"): loadMadness() starts
LoadCall ==
    /\ loadMadnessStart
    /\ LoadHistory
    /\ UNCHANGED pending

\* the reset button: both items are removed, then loadMadness() starts
ResetCall ==
    /\ lsMmState' = Absent
    /\ lsMmUndo' = Absent
    /\ loadMadnessStart
    /\ last' = [NoCall EXCEPT !.op = "reset"]
    /\ ghost' = <<>>
    /\ run' = [RunOff EXCEPT !.reset = TRUE]
    /\ UNCHANGED <<mmState, db, served, pending, voteTab>>

\* what the history variables record of the end of a run of loadMadness
ArriveHistory(resp) ==
    /\ last' = [NoCall EXCEPT !.op = "loaded", !.changed = (resp.kind = "ok"),
                              !.outcome = loadMadnessOutcome(resp),
                              !.r = resp.r, !.n = resp.n]
    /\ run' = [(IF resp.kind # "ok" THEN run
                ELSE IF picksOf(mmState'.games) = {} /\ getUndoStack(lsMmUndo) = <<>>
                THEN RunFresh ELSE RunOff)
               EXCEPT !.reset = run.reset /\ inflight' > 0]
    /\ UNCHANGED <<ghost, db, served, voteTab>>

\* the server's answer to one outstanding fetch arrives and loadMadness runs to its end
ResponseArrives(resp) ==
    /\ loadMadnessFinish(resp)
    /\ ArriveHistory(resp)
    /\ UNCHANGED pending

---------------------------------------------------------------------------
(* Inputs *)

\* something other than this code writes a storage item (another tab, an
\* older version of the page, the user): the item becomes blob
Spoil(key, blob) ==
    /\ IF key = "mmUndo"
       THEN lsMmUndo' = blob /\ UNCHANGED lsMmState
       ELSE lsMmState' = blob /\ UNCHANGED lsMmUndo
    /\ last' = [NoCall EXCEPT !.op = "spoil", !.item = key, !.blob = blob.kind]
    /\ ghost' = <<>>
    /\ run' = [RunOff EXCEPT !.reset = run.reset]
    /\ UNCHANGED <<mmState, inflight, db, served, pending, voteTab>>

\* the ranked position seeded into region ri (1..4) with seed s
rankOf(s, ri) == (s - 1) * BAND_SIZE + ri

Responses == {okResponse(r) : r \in 1..NumRankings} \cup {errResponse}

\* games of the first region's upper quarter, a first-round game of the third
\* region (its seed-16 slot is empty when fewer than 63 options exist), and an
\* id no graph contains
PickGames ==
    {gid(regionNames[1], "r64", 0), gid(regionNames[1], "r64", 1),
     gid(regionNames[1], "r32", 0), gid(regionNames[1], "s16", 0),
     gid(regionNames[3], "r64", 0), "nowhere-r64-0"}

\* the option ids seeded 1, 8 and 16 in the first region and 1 in the third
\* (under the first rank order), and an id no option has
PickTeams ==
    {rankOf(1, 1), rankOf(8, 1), rankOf(16, 1), rankOf(1, 3),
     NumOptions + NUM_SEEDS}

\* SpecFaulty: the responses a fetch can end with, a valid first-round pick in
\* the first and in the third region, and the malformed blobs
FaultyResponses == {okResponse(1), shortResponse, noRegionsResponse, errResponse}
FaultyPicks ==
    {<<gid(regionNames[1], "r64", 0), rankOf(1, 1)>>,
     <<gid(regionNames[3], "r64", 0), rankOf(1, 3)>>}
StorageKeys == {"mmState", "mmUndo"}
MalformedBlobs == {Unparsable, OtherJson}

LongGame == gid(regionNames[1], "r64", 0)
LongTeam == rankOf(1, 1)

---------------------------------------------------------------------------
(* Spec: every handler, few steps *)

Step(max) == steps < max /\ steps' = steps + 1

StartLoad ==
    /\ Step(MaxSteps)
    /\ inflight < MaxInFlight
    /\ LoadCall

Reset ==
    /\ Step(MaxSteps)
    /\ inflight < MaxInFlight
    /\ ResetCall

FinishLoad ==
    /\ steps' = steps + 1
    /\ \E resp \in Responses : ResponseArrives(resp)

Pick ==
    /\ Step(MaxSteps)
    /\ \E gameId \in PickGames, teamId \in PickTeams : PickCall(gameId, teamId)

Undo ==
    /\ Step(MaxSteps)
    /\ UndoCall

Next == StartLoad \/ Reset \/ FinishLoad \/ Pick \/ Undo

Spec == Init /\ [][Next]_vars

(* SpecLong: one session, one game toggled again and again, so that the undo
   stack fills up and overflows.  The run of picks from the fresh bracket and
   the undo calls that follow it are bounded; everything else is finite. *)

FirstLoad ==
    /\ mmState.isNull
    /\ inflight = 0
    /\ LoadCall
    /\ UNCHANGED steps

PickLong ==
    /\ run.phase = "picking" => run.k < MaxLongPicks
    /\ PickCall(LongGame, LongTeam)
    /\ UNCHANGED steps

UndoLong ==
    /\ ~mmState.isNull
    /\ run.phase = "undoing" => run.u <= run.k
    /\ UndoCall
    /\ UNCHANGED steps

ArriveLong ==
    /\ ResponseArrives(okResponse(1))
    /\ UNCHANGED steps

NextLong == FirstLoad \/ ArriveLong \/ PickLong \/ UndoLong

SpecLong == Init /\ [][NextLong]_vars

(* SpecFaulty: one rank order, with everything around the engine allowed to
   fail: a write to the storage may throw, a stored item may be overwritten
   with a malformed blob, and a fetch may fail, come back without regions or
   with fewer regions than four. *)

LoadFaulty ==
    /\ Step(MaxFaultySteps)
    /\ inflight < MaxInFlight
    /\ LoadCall

ArriveFaulty ==
    /\ Step(MaxFaultySteps)
    /\ \E resp \in FaultyResponses : ResponseArrives(resp)

PickFaulty ==
    /\ Step(MaxFaultySteps)
    /\ \E p \in FaultyPicks, undoOk \in BOOLEAN, stateOk \in BOOLEAN :
          PickCallIO(p[1], p[2], undoOk, stateOk)

UndoFaulty ==
    /\ Step(MaxFaultySteps)
    /\ ~mmState.isNull
    /\ \E undoOk \in BOOLEAN, stateOk \in BOOLEAN : UndoCallIO(undoOk, stateOk)

SpoilStorage ==
    /\ Step(MaxFaultySteps)
    /\ \E key \in StorageKeys, blob \in MalformedBlobs : Spoil(key, blob)

NextFaulty == LoadFaulty \/ ArriveFaulty \/ PickFaulty \/ UndoFaulty \/ SpoilStorage

SpecFaulty == Init /\ [][NextFaulty]_vars

(* SpecRace: the madness tab is opened again while a load is in flight.  The
   server answers each fetch with the rank order of the moment, and the
   answers come back in any order. *)

\* switchTab("madness") or the reset's reload, with the answer the server
\* gives to this fetch
StartRace ==
    /\ Step(MaxRaceSteps)
    /\ Len(pending.calls) < MaxRaceLoads
    /\ loadMadnessStart
    /\ LoadHistory
    /\ \E r \in 1..NumRankings :
          pending' = [calls |-> Append(pending.calls, okResponse(r)),
                      newest |-> okResponse(r),
                      raced |-> pending.calls # <<>>]

\* one of the answers in flight arrives
ArriveRace ==
    /\ Step(MaxRaceSteps)
    /\ \E i \in 1..Len(pending.calls) :
          /\ loadMadnessFinish(pending.calls[i])
          /\ ArriveHistory(pending.calls[i])
          /\ pending' = [pending EXCEPT
                            !.calls = SubSeq(@, 1, i - 1) \o SubSeq(@, i + 1, Len(@))]

PickRace ==
    /\ Step(MaxRaceSteps)
    /\ \E gameId \in PickGames, teamId \in PickTeams : PickCall(gameId, teamId)

NextRace == StartRace \/ ArriveRace \/ PickRace

SpecRace == Init /\ [][NextRace]_vars

(* SpecServer: the two bracket endpoints answer over a database drawn from a
   bounded set: a few options with up to MaxVotes votes on the first of them,
   or about the 64 options that fill the four regions, with at most one vote
   or with one vote of one tenant on every option.
   DELETE /api/vote/:id removes any one vote, and DELETE /api/burger-club/:id
   removes an option and keeps its votes, so every such table is one the
   server can hold. *)

\* the title of the option with the given id: titles repeat, and their order
\* is not the order of the ids
titleOf(id) ==
    IF id % 3 = 1 THEN <<1, 2>> ELSE IF id % 3 = 2 THEN <<2>> ELSE <<1>>

FewOptions == {0, 1, 2, 3, 6}
ManyOptions == {MaxOptions - 1, MaxOptions}
VotedOptions == {1, 2}
VoteRanks == {1, 2}
\* weight 0.5 and weight 1, in halves
VoteWeights == {1, 2}
Tenants == {1, 2}

VoteRows ==
    [tenant : Tenants, option : VotedOptions, rank : VoteRanks, weight : VoteWeights]

VoteTables(max) == UNION {[1..k -> VoteRows] : k \in 0..max}

database(n, table) ==
    [options |-> [i \in 1..n |-> [id |-> i, title |-> titleOf(i)]], votes |-> table]

\* the votes of a tenant who has ranked every one of n options, five at a
\* time, attending every second one
ballots(n, tenantId) ==
    [i \in 1..n |-> [tenant |-> tenantId, option |-> i,
                     rank |-> (i % 5) + 1, weight |-> (i % 2) + 1]]

Databases ==
    {database(n, table) : n \in FewOptions, table \in VoteTables(MaxVotes)}
    \cup {database(n, table) : n \in ManyOptions, table \in VoteTables(1)}
    \cup {database(n, ballots(n, tenantId)) : n \in ManyOptions, tenantId \in Tenants}

InitServer ==
    /\ InitPage
    /\ db \in Databases
    /\ served = NoAnswer

\* a GET /api/brackets is answered
GetBrackets ==
    /\ served' = getBrackets(db)
    /\ UNCHANGED <<mmState, lsMmState, lsMmUndo, inflight, last, ghost, run, steps, db,
                   pending, voteTab>>

\* a GET /api/personal-bracket of one tenant is answered
GetPersonalBracket ==
    /\ \E tenantId \in Tenants : served' = getPersonalBracket(db, tenantId)
    /\ UNCHANGED <<mmState, lsMmState, lsMmUndo, inflight, last, ghost, run, steps, db,
                   pending, voteTab>>

\* a GET /api/compare is answered
GetCompare ==
    /\ served' = getCompare(db, Tenants)
    /\ UNCHANGED <<mmState, lsMmState, lsMmUndo, inflight, last, ghost, run, steps, db,
                   pending, voteTab>>

NextServer == GetBrackets \/ GetPersonalBracket \/ GetCompare

SpecServer == InitServer /\ [][NextServer]_vars

(* SpecVotes: tenants vote, delete votes and ask for the next five, on a
   database of four, five or six options. *)

\* the tenants whose burger_club column is 1 for the option of the given id
attendedOf(id) == IF id % 2 = 1 THEN {1} ELSE IF id % 3 = 0 THEN {1, 2} ELSE {}

\* the table options: without a row; in step with burger_club; or filled from
\* a file in which everybody attended everything (attendees "true")
legacyOf(n, variant) ==
    IF variant = "none" THEN <<>>
    ELSE IF variant = "same" THEN [id \in 1..n |-> attendedOf(id)]
    ELSE [id \in 1..n |-> Tenants]

VoteOptionCounts == {4, 5, 6}
Stores == {[foreignKeys |-> FALSE, legacy |-> "none"],
           [foreignKeys |-> TRUE, legacy |-> "none"],
           [foreignKeys |-> TRUE, legacy |-> "same"],
           [foreignKeys |-> TRUE, legacy |-> "other"]}

voteDatabase(n, store) ==
    [options |-> [i \in 1..n |-> [id |-> i, title |-> titleOf(i), attended |-> attendedOf(i)]],
     legacy |-> legacyOf(n, store.legacy),
     foreignKeys |-> store.foreignKeys,
     votes |-> <<>>,
     nextVoteId |-> 1]

\* a request body of POST /api/vote
payloadOf(roundId, optionIds, ranks) ==
    [roundId |-> roundId, isArray |-> TRUE,
     rankings |-> [k \in 1..Len(optionIds) |-> [optionId |-> optionIds[k], rank |-> ranks[k]]]]

Payloads ==
    {payloadOf(1, <<1, 2, 3, 4, 5>>, <<1, 2, 3, 4, 5>>),
     payloadOf(2, <<2, 3, 4, 5, 6>>, <<5, 4, 3, 2, 1>>),
     payloadOf(0, <<1, 2, 3, 4, 5>>, <<1, 2, 3, 4, 5>>),
     payloadOf(1, <<1, 2, 3, 4>>, <<1, 2, 3, 4>>),
     payloadOf(1, <<1, 2, 3, 4, 5>>, <<1, 1, 3, 4, 5>>),
     payloadOf(1, <<1, 2, 3, 4, 5>>, <<2, 3, 4, 5, 6>>),
     payloadOf(1, <<1, 2, 3, 4, 5>>, <<0, 1, 2, 3, 4>>),
     payloadOf(1, <<1, 1, 3, 4, 5>>, <<1, 2, 3, 4, 5>>),
     payloadOf(1, <<1, 2, 3, 4, 9>>, <<1, 2, 3, 4, 5>>),
     [payloadOf(1, <<>>, <<>>) EXCEPT !.isArray = FALSE]}

\* the ids a tenant may ask to delete: no id, early votes, a later vote
DeleteIds == {0, 1, 2, 6}

\* values of Math.random(), in hundredths
Randoms == {0, 99}

InitVotes ==
    /\ InitPage
    /\ db \in {voteDatabase(n, store) : n \in VoteOptionCounts, store \in Stores}
    /\ served = NoAnswer

VoteFrame ==
    UNCHANGED <<mmState, lsMmState, lsMmUndo, inflight, last, ghost, run, pending, voteTab>>

\* a POST /api/vote is answered
PostVote ==
    /\ Step(MaxVoteSteps)
    /\ \E tenantId \in Tenants, payload \in Payloads :
          LET done == postVote(db, tenantId, payload)
          IN  /\ db' = done.db
              /\ served' = [kind |-> "vote", tenant |-> tenantId, status |-> done.status,
                            payload |-> payload]
    /\ VoteFrame

\* a DELETE /api/vote/:id is answered
DeleteVote ==
    /\ Step(MaxVoteSteps)
    /\ \E tenantId \in Tenants, id \in DeleteIds :
          LET done == deleteVote(db, tenantId, id)
          IN  /\ db' = done.db
              /\ served' = [kind |-> "delete", tenant |-> tenantId, status |-> done.status,
                            id |-> id]
    /\ VoteFrame

\* a DELETE /api/votes is answered
DeleteVotes ==
    /\ Step(MaxVoteSteps)
    /\ \E tenantId \in Tenants :
          LET done == deleteVotes(db, tenantId)
          IN  /\ db' = done.db
              /\ served' = statusOnly("deleteAll", tenantId, done.status)
    /\ VoteFrame

\* a GET /api/next is answered
GetNext ==
    /\ Step(MaxVoteSteps)
    /\ \E tenantId \in Tenants, draws \in [1..Len(db.options) -> Randoms] :
          served' = getNext(db, tenantId, draws)
    /\ UNCHANGED db
    /\ VoteFrame

NextVotes == PostVote \/ DeleteVote \/ DeleteVotes \/ GetNext

SpecVotes == InitVotes /\ [][NextVotes]_vars

(* SpecVoteTab: one tenant on the vote tab, with the server behind it.  The
   server handles a request at the moment its answer arrives at the page. *)

\* the tenant in the seat
Seat == 1

\* the values of Math.random() of one GET /api/next: all low or all high
TabDraws == {[k \in 1..6 |-> 0], [k \in 1..6 |-> 99]}

InitVoteTab ==
    /\ InitPage
    /\ db = [options |-> [i \in 1..6 |-> [id |-> i, title |-> titleOf(i), attended |-> {}]],
             legacy |-> [id \in 1..6 |-> {}],
             foreignKeys |-> TRUE,
             votes |-> <<>>,
             nextVoteId |-> 1]
    /\ served = NoAnswer

TabFrame(op) ==
    /\ last' = [NoCall EXCEPT !.op = op]
    /\ UNCHANGED <<mmState, lsMmState, lsMmUndo, inflight, ghost, run, steps, pending>>

\* a click on "Next 5"
ClickNext ==
    /\ Len(voteTab.tasks) < MaxTabTasks
    /\ Len(voteTab.rounds) < MaxRounds
    /\ voteTab' = loadNext5Start(voteTab, FALSE)
    /\ TabFrame("next")
    /\ UNCHANGED <<db, served>>

\* a card is dropped on the slot of its place in the pool
Drop ==
    /\ \E k \in 1..Len(voteTab.cards) :
          voteTab' = placeOptionInSlot(voteTab, voteTab.cards[k], k)
    /\ TabFrame("drop")
    /\ UNCHANGED <<db, served>>

\* a click on the submit button
ClickSubmit ==
    /\ Len(voteTab.tasks) < MaxTabTasks
    /\ Len(db.votes) < 5 * MaxStoredRounds
    /\ voteTab' = submitVote(voteTab)
    /\ TabFrame("submit")
    /\ UNCHANGED <<db, served>>

\* the server answers a GET /api/next and the answer arrives
NextAnswered ==
    /\ \E i \in 1..Len(voteTab.tasks), draws \in TabDraws, fresh \in BOOLEAN :
          /\ voteTab.tasks[i].waitsFor = "next"
          /\ Len(voteTab.rounds) < MaxRounds
          /\ served' = getNext(db, Seat, draws)
          /\ voteTab' = loadNext5Answered(voteTab, i, served', fresh)
    /\ TabFrame("nextAnswered")
    /\ UNCHANGED db

\* the answer to a GET /api/burger-club arrives
AttendanceAnswered ==
    /\ \E i \in 1..Len(voteTab.tasks) :
          /\ voteTab.tasks[i].waitsFor = "attendance"
          /\ voteTab' = attendanceAnswered(voteTab, i)
    /\ TabFrame("attendanceAnswered")
    /\ UNCHANGED <<db, served>>

\* the server answers a POST /api/vote and the answer arrives
PostAnswered ==
    /\ \E i \in 1..Len(voteTab.tasks) :
          /\ voteTab.tasks[i].waitsFor = "post"
          /\ LET done == postVote(db, Seat, voteTab.tasks[i].payload)
             IN  /\ db' = done.db
                 /\ served' = [kind |-> "vote", tenant |-> Seat, status |-> done.status,
                               payload |-> voteTab.tasks[i].payload]
                 /\ voteTab' = submitVoteAnswered(voteTab, i, done.status)
    /\ TabFrame("posted")

\* the answer to a GET /api/progress arrives
ProgressAnswered ==
    /\ \E i \in 1..Len(voteTab.tasks) :
          /\ voteTab.tasks[i].waitsFor = "progress"
          /\ voteTab' = progressAnswered(voteTab, i)
    /\ TabFrame("progressAnswered")
    /\ UNCHANGED <<db, served>>

NextVoteTab ==
    \/ ClickNext \/ Drop \/ ClickSubmit \/ NextAnswered
    \/ AttendanceAnswered \/ PostAnswered \/ ProgressAnswered

SpecVoteTab == InitVoteTab /\ [][NextVoteTab]_vars

---------------------------------------------------------------------------
(* Properties *)

Stack == getUndoStack(lsMmUndo)
winners == picksOf(mmState.games)
front(q) == SubSeq(q, 1, Len(q) - 1)
top(q) == q[Len(q)]

\* C1: a pickWinner call whose game id is not in the graph, or whose team id is
\* not a resolved occupant of the game, leaves the bracket state (every
\* winner) and the stored undo stack exactly as they were.
C1_PickRejection ==
    [][(last'.op = "pick" /\ (~last'.inGraph \/ ~last'.isOcc))
          => (mmState' = mmState /\ lsMmUndo' = lsMmUndo)]_vars

\* C1 witness: a call naming a game of the graph with both occupants resolved
\* and a team that is neither was made on a bracket with picks and a
\* non-empty undo stack, and changed nothing.
C1_Witness ==
    /\ last.op = "pick" /\ last.inGraph /\ last.occ = 2 /\ ~last.isOcc /\ ~last.changed
    /\ winners # {}
    /\ Stack # <<>>

\* C2 (as claimed): a pickWinner call on a game with fewer than two resolved
\* occupants changes neither a winner nor the undo stack.
C2_SingleOccupantRejected ==
    [][(last'.op = "pick" /\ last'.occ < 2)
          => (mmState' = mmState /\ lsMmUndo' = lsMmUndo)]_vars

\* C3: after an accepted pickWinner(G, t) every transitive dependent of G has
\* a null winner.
C3_CascadingInvalidation ==
    [][(last'.op = "pick" /\ last'.changed)
          => \A d \in TransDeps(mmState, last'.gameId) :
                mmState'.games[d].winnerId = 0]_vars

\* C3 witness: an accepted pick replaced a different winner of its game while
\* two of the game's transitive dependents had winners, which are now null.
C3_Witness ==
    /\ last.op = "pick" /\ last.changed
    /\ last.was # 0 /\ last.was # last.teamId
    /\ last.cascade >= 2
    /\ \A d \in TransDeps(mmState, last.gameId) : mmState.games[d].winnerId = 0

\* C4 (as claimed): every game with a non-null winner has that winner among
\* its currently resolved occupants.
C4_WinnersAreOccupants ==
    ~mmState.isNull =>
        \A id \in DOMAIN mmState.games :
            mmState.games[id].winnerId # 0
                => mmState.games[id].winnerId \in occupantIds(mmState, id)

\* C5 (as claimed): K accepted picks from the fresh bracket followed by K undo
\* calls give the all-null winner map, for every K >= 1.
C5_UndoCompletenessAnyK ==
    (run.phase = "undoing" /\ run.u = run.k) => winners = {}

\* C5 (amended): for 1 <= K <= 50, K accepted picks from the fresh bracket
\* followed by K undo calls give the all-null winner map and an empty undo
\* stack, and a further undo call changes neither.
C5_UndoCompleteness ==
    /\ []((run.phase = "undoing" /\ run.u = run.k /\ run.k <= UNDO_CAP)
            => (winners = {} /\ Stack = <<>>))
    /\ [][(run.phase = "undoing" /\ run.u >= run.k /\ run.k <= UNDO_CAP
            /\ last'.op = "undo")
            => (mmState' = mmState /\ getUndoStack(lsMmUndo') = <<>>)]_vars

\* C5 witness: 50 picks were undone by 50 undo calls and one more undo call
\* was made.
C5_Witness ==
    /\ run.phase = "undoing" /\ run.k = UNDO_CAP /\ run.u = run.k + 1
    /\ last.op = "undo"
    /\ winners = {}

\* C6: an undo call on a non-empty stack removes exactly the newest snapshot,
\* and afterwards the winner map is that snapshot on every game, which is the
\* winner map from before the most recent accepted pick not yet undone.
C6_UndoRestoresSnapshot ==
    [][(last'.op = "undo" /\ ~mmState.isNull /\ Stack # <<>>)
          => /\ getUndoStack(lsMmUndo') = front(Stack)
             /\ \A id \in DOMAIN mmState'.games :
                   mmState'.games[id].winnerId =
                       IF id \in DOMAIN top(Stack) THEN top(Stack)[id] ELSE 0
             /\ ghost # <<>>
             /\ picksOf(mmState'.games) = top(ghost)]_vars

\* C6 witness: an undo call popped a snapshot, winners remain and so do older
\* snapshots.
C6_Witness ==
    /\ last.op = "undo" /\ last.changed
    /\ winners # {}
    /\ Stack # <<>>

\* C7: the undo stack never holds more than 50 snapshots, and an accepted pick
\* made with 50 on the stack drops the oldest, keeps the other 49 in order
\* and puts the new snapshot last.
C7_UndoCapacity ==
    /\ [](Len(Stack) <= UNDO_CAP)
    /\ [][(last'.op = "pick" /\ last'.changed /\ Len(Stack) = UNDO_CAP)
            => getUndoStack(lsMmUndo') =
                   Append(Tail(Stack), snapshotMadness(mmState.games))]_vars

\* C7 witness: the 51st pick in a row was accepted and the stack holds 50.
C7_Witness ==
    /\ last.op = "pick" /\ last.changed
    /\ run.phase = "picking" /\ run.k = UNDO_CAP + 1
    /\ Len(Stack) = UNDO_CAP

\* C8 (as claimed): two accepted calls pickWinner(G, A) in a row leave G and
\* its transitive dependents null and the winner map equal to the one before
\* the first of them.
C8_ToggleSymmetryAny ==
    [][(last.op = "pick" /\ last.changed /\ last'.op = "pick" /\ last'.changed
          /\ last'.gameId = last.gameId /\ last'.teamId = last.teamId)
          => /\ \A d \in {last.gameId} \cup TransDeps(mmState, last.gameId) :
                   mmState'.games[d].winnerId = 0
             /\ ghost # <<>>
             /\ picksOf(mmState'.games) = top(ghost)]_vars

\* C8 (amended): when A is an occupant of G and not G's recorded winner, two
\* calls pickWinner(G, A) in a row leave G and its transitive dependents null,
\* and the winner map is the one from before the first call with G and its
\* transitive dependents set to null.
C8_ToggleSymmetry ==
    [][(last.op = "pick" /\ last.changed /\ last.was # last.teamId
          /\ last'.op = "pick" /\ last'.changed
          /\ last'.gameId = last.gameId /\ last'.teamId = last.teamId)
          => /\ \A d \in {last.gameId} \cup TransDeps(mmState, last.gameId) :
                   mmState'.games[d].winnerId = 0
             /\ ghost # <<>>
             /\ picksOf(mmState'.games) =
                   {p \in top(ghost) :
                       p[1] \notin {last.gameId} \cup TransDeps(mmState, last.gameId)}]_vars

\* C8 witness: the second of two such calls was accepted; before the first
\* one the game had the other occupant as its winner.
C8_Witness ==
    /\ last.op = "pick" /\ last.changed /\ last.repeat
    /\ mmState.games[last.gameId].winnerId = 0
    /\ Len(ghost) >= 2
    /\ \E p \in ghost[Len(ghost) - 1] : p[1] = last.gameId /\ p[2] # last.teamId

\* C9: an accepted pick puts exactly one snapshot on the undo stack (dropping
\* the oldest at capacity), that snapshot is the winner map from before the
\* pick, and an undo call right after the pick gives back that winner map.
C9_OneSnapshotPerPick ==
    /\ [][(last'.op = "pick" /\ last'.changed)
            => /\ getUndoStack(lsMmUndo') =
                     Append(IF Len(Stack) < UNDO_CAP THEN Stack ELSE Tail(Stack),
                            [id \in DOMAIN mmState.games |-> mmState.games[id].winnerId])
               /\ ghost' # <<>>
               /\ picksOfSnap(top(getUndoStack(lsMmUndo'))) = top(ghost')]_vars
    /\ [][(last.op = "pick" /\ last.changed /\ last'.op = "undo")
            => /\ ghost # <<>>
               /\ picksOf(mmState'.games) = top(ghost)
               /\ getUndoStack(lsMmUndo') = front(Stack)]_vars

\* C9 witness: an undo call right after an accepted pick that had cleared a
\* dependent's winner popped a snapshot, and that dependent has its winner back.
C9_Witness ==
    /\ last.op = "undo" /\ last.changed /\ last.afterPick
    /\ last.cascade >= 1
    /\ \E id \in DOMAIN mmState.games :
          mmState.games[id].type # "r64" /\ mmState.games[id].winnerId # 0

\* C10: an undo call on an empty undo stack leaves every winner and the stored
\* winner map unchanged and the stack empty.
C10_UndoOnEmptyStack ==
    [][(last'.op = "undo" /\ Stack = <<>>)
          => (mmState' = mmState /\ lsMmState' = lsMmState
              /\ getUndoStack(lsMmUndo') = <<>>)]_vars

\* C10 witness: an undo call found the stack empty while games had winners.
C10_Witness ==
    /\ last.op = "undo" /\ ~last.changed
    /\ ~mmState.isNull
    /\ winners # {}
    /\ Stack = <<>>

\* C11 (as claimed): a pickWinner call with a resolved occupant, and an undo
\* call on a non-empty stack, leave the winner map that they leave when every
\* write succeeds, whether or not their writes of "mmUndo" and "mmState"
\* succeed.
C11_FailedWriteKeepsChange ==
    [][/\ (last'.op = "pick" /\ last'.inGraph /\ last'.isOcc /\ isArray(lsMmUndo))
            => mmState'.games = applyPick(mmState, last'.gameId, last'.teamId)
       /\ (last'.op = "undo" /\ ~mmState.isNull /\ isArray(lsMmUndo) /\ Stack # <<>>)
            => mmState'.games = applyUndo(mmState.games, top(Stack))]_vars

\* the games, dependents and teams of st with every winner null
asBuilt(st) ==
    [st EXCEPT !.games = [id \in DOMAIN st.games |-> [st.games[id] EXCEPT !.winnerId = 0]]]

malformed(item) == item.kind \in {"text", "other"}

\* C13 (as claimed): a malformed stored blob is read as empty state: after a
\* load that finds a malformed "mmState" every winner is null as built; a
\* pickWinner call with a resolved occupant that finds a malformed "mmUndo"
\* ends without an exception, sets the winner and leaves a stack of one
\* snapshot; an undo call that finds a malformed "mmUndo" ends without an
\* exception, changes no winner and leaves an empty stack.
C13_MalformedBlobIsEmpty ==
    [][/\ (last'.op = "loaded" /\ last'.changed /\ malformed(lsMmState))
            => picksOf(mmState'.games) = {}
       /\ (last'.op = "pick" /\ last'.inGraph /\ last'.isOcc
              /\ malformed(lsMmUndo) /\ last'.undoOk)
            => /\ ~last'.threw
               /\ mmState'.games = applyPick(mmState, last'.gameId, last'.teamId)
               /\ lsMmUndo' = Json(<<snapshotMadness(mmState.games)>>)
       /\ (last'.op = "undo" /\ ~mmState.isNull /\ malformed(lsMmUndo) /\ last'.undoOk)
            => /\ ~last'.threw
               /\ mmState' = mmState
               /\ lsMmUndo' = Json(<<>>)]_vars

\* C14 (as claimed): the current state is never a graph with a game whose
\* upstream reference is missing or names no game of the graph.
C14_NoMissingUpstream ==
    ~mmState.isNull =>
        \A id \in DOMAIN mmState.games :
            mmState.games[id].type # "r64"
                => /\ mmState.games[id].aGame \in DOMAIN mmState.games
                   /\ mmState.games[id].bGame \in DOMAIN mmState.games

\* the entries of the stored winner map as restoreMadness walks them
blobEntries(item) == IF item.kind = "json" THEN item.val ELSE <<>>

\* C15: when loadMadness restores the stored winner map into the graph it has
\* just built, the games are exactly the games built; a game whose id is in
\* the blob has the blob's winner; a game the blob does not mention is as
\* built; ids of the blob that name no game change nothing; the dependency
\* index and the teams are as built.
C15_RestoreFrame ==
    [][(last'.op = "loaded" /\ last'.changed)
          => LET b == built[last'.r][last'.n]
                 blob == blobEntries(lsMmState)
             IN  /\ DOMAIN mmState'.games = DOMAIN b.games
                 /\ \A id \in DOMAIN b.games :
                       mmState'.games[id] =
                           IF id \in DOMAIN blob
                           THEN [b.games[id] EXCEPT !.winnerId = blob[id]]
                           ELSE b.games[id]
                 /\ mmState'.dependents = b.dependents
                 /\ mmState'.teamsById = b.teamsById]_vars

\* C15 witness: a graph of fewer regions was loaded over a stored winner map
\* that has a winner for a game of the new graph, now restored, and a winner
\* for a game the new graph does not contain.
C15_Witness ==
    /\ last.op = "loaded" /\ last.changed
    /\ \E id \in DOMAIN blobEntries(lsMmState) :
          /\ id \in DOMAIN mmState.games
          /\ blobEntries(lsMmState)[id] # 0
          /\ mmState.games[id].winnerId = blobEntries(lsMmState)[id]
    /\ \E id \in DOMAIN blobEntries(lsMmState) :
          /\ id \notin DOMAIN mmState.games
          /\ blobEntries(lsMmState)[id] # 0

\* C16: when a load rebuilds the graph with the same game ids and restores,
\* and a winner map has been stored since the last reset (or there is no
\* winner), every game has the winner it had before the rebuild.
C16_RebuildKeepsWinners ==
    [][(last'.op = "loaded" /\ last'.changed /\ ~mmState.isNull
          /\ DOMAIN mmState'.games = DOMAIN mmState.games
          /\ (lsMmState.kind = "json" \/ winners = {}))
          => \A id \in DOMAIN mmState.games :
                mmState'.games[id].winnerId = mmState.games[id].winnerId]_vars

\* C16 witness: a graph was rebuilt over a bracket with a first-round and a
\* second-round winner and a stored undo stack, and both winners are there.
C16_Witness ==
    /\ last.op = "loaded" /\ last.changed
    /\ \E id \in DOMAIN mmState.games :
          mmState.games[id].type = "r64" /\ mmState.games[id].winnerId # 0
    /\ \E id \in DOMAIN mmState.games :
          mmState.games[id].type = "r32" /\ mmState.games[id].winnerId # 0
    /\ lsMmUndo.kind = "json"

\* the winner id recorded on the game an upstream reference names (null when
\* the reference names no game)
recorded(st, gameId) == IF gameId \in DOMAIN st.games THEN st.games[gameId].winnerId ELSE 0

\* C17 (as claimed): in every state, each side of every internal game is
\* occupied by the team recorded as winner of that side's upstream game when
\* that game has a winner, and is absent otherwise.
C17_OccupantsAreUpstreamWinners ==
    ~mmState.isNull =>
        \A id \in DOMAIN mmState.games :
            mmState.games[id].type # "r64"
                => /\ getGameTeams(mmState, id).a.id = recorded(mmState, mmState.games[id].aGame)
                   /\ getGameTeams(mmState, id).b.id = recorded(mmState, mmState.games[id].bGame)

\* the round whose games feed the games of a round
precedingRound(type) ==
    CASE type = "r32" -> "r64"
      [] type = "s16" -> "r32"
      [] type = "e8" -> "s16"
      [] type = "ff" -> "e8"
      [] type = "final" -> "ff"
      [] OTHER -> ""

\* C18: the graph built from four regions has exactly 63 games; every
\* non-leaf game has two upstream references, to two different games of the
\* graph that belong to the round right before its own; the dependency index
\* lists a game under an upstream game exactly when the game references it;
\* every game but the championship has exactly one dependent and the
\* championship has none.
C18_GraphShape ==
    ~mmState.isNull =>
        LET games == mmState.games
            deps == mmState.dependents
        IN  /\ Cardinality(DOMAIN games) = 63
            /\ \A id \in DOMAIN games :
                  games[id].type # "r64"
                      => /\ games[id].aGame \in DOMAIN games
                         /\ games[id].bGame \in DOMAIN games
                         /\ games[id].aGame # games[id].bGame
                         /\ games[games[id].aGame].type = precedingRound(games[id].type)
                         /\ games[games[id].bGame].type = precedingRound(games[id].type)
                         /\ games[id].aGame \in DOMAIN deps
                         /\ games[id].bGame \in DOMAIN deps
                         /\ id \in range(deps[games[id].aGame])
                         /\ id \in range(deps[games[id].bGame])
            /\ \A up \in DOMAIN deps :
                  \A k \in 1..Len(deps[up]) :
                      /\ deps[up][k] \in DOMAIN games
                      /\ games[deps[up][k]].type # "r64"
                      /\ up \in {games[deps[up][k]].aGame, games[deps[up][k]].bGame}
            /\ DOMAIN deps = DOMAIN games \ {"final-0"}
            /\ \A up \in DOMAIN deps : Len(deps[up]) = 1

\* C18 witness: a graph of 63 games is the current state, one of its games
\* has a winner, and the championship has no entry in the dependency index.
C18_Witness ==
    /\ ~mmState.isNull
    /\ Cardinality(DOMAIN mmState.games) = 63
    /\ winners # {}
    /\ "final-0" \notin DOMAIN mmState.dependents
    /\ mmState.dependents["ff-1"] = <<"final-0">>

\* the first-round pairing of seeds the bracket is to have
ClaimedPairs ==
    << <<1, 16>>, <<8, 9>>, <<5, 12>>, <<4, 13>>,
       <<6, 11>>, <<3, 14>>, <<7, 10>>, <<2, 15>> >>

\* side t of a first-round game holds the region's team of seed s, or is empty
\* when the ranked list ends before that seed of region ri
holdsSeed(t, ri, s) ==
    IF rankOf(s, ri) <= NumOptions
    THEN /\ t # NoTeam
         /\ t.seed = s
         /\ t.id \in DOMAIN mmState.teamsById
         /\ mmState.teamsById[t.id] = t
    ELSE t = NoTeam

\* C19: in every region the eight round64 games pair the seeds (1,16), (8,9),
\* (5,12), (4,13), (6,11), (3,14), (7,10), (2,15) in that order, a seed
\* without a team giving an empty side; round32 game i takes round64 games 2i
\* and 2i+1, sweet16 game i takes round32 games 2i and 2i+1, and the elite8
\* game takes the two sweet16 games.
C19_RegionRounds ==
    ~mmState.isNull =>
        \A ri \in 1..Len(regionNames) :
            LET name == regionNames[ri]
                g(type, i) == mmState.games[gid(name, type, i)]
            IN  /\ \A i \in 0..7 :
                      /\ g("r64", i).type = "r64"
                      /\ holdsSeed(g("r64", i).a, ri, ClaimedPairs[i + 1][1])
                      /\ holdsSeed(g("r64", i).b, ri, ClaimedPairs[i + 1][2])
                /\ \A i \in 0..3 :
                      /\ g("r32", i).type = "r32"
                      /\ g("r32", i).aGame = gid(name, "r64", 2 * i)
                      /\ g("r32", i).bGame = gid(name, "r64", 2 * i + 1)
                /\ \A i \in 0..1 :
                      /\ g("s16", i).type = "s16"
                      /\ g("s16", i).aGame = gid(name, "r32", 2 * i)
                      /\ g("s16", i).bGame = gid(name, "r32", 2 * i + 1)
                /\ g("e8", 0).type = "e8"
                /\ g("e8", 0).aGame = gid(name, "s16", 0)
                /\ g("e8", 0).bGame = gid(name, "s16", 1)

\* C19 witness: in the loaded graph the second game of the first region is
\* seed 8 against seed 9, and the first game of the third region has seed 1
\* on side A and nobody on side B.
C19_Witness ==
    /\ ~mmState.isNull
    /\ mmState.games[gid(regionNames[1], "r64", 1)].a.seed = 8
    /\ mmState.games[gid(regionNames[1], "r64", 1)].b.seed = 9
    /\ mmState.games[gid(regionNames[3], "r64", 0)].a.seed = 1
    /\ mmState.games[gid(regionNames[3], "r64", 0)].b = NoTeam

\* C20: the graph has exactly two finalFour games and one championship game;
\* the first finalFour game takes the elite8 games of the first and second
\* region, the second those of the third and fourth, and the championship
\* takes the two finalFour games.
C20_FinalRounds ==
    ~mmState.isNull =>
        LET games == mmState.games
        IN  /\ {id \in DOMAIN games : games[id].type = "ff"} = {"ff-0", "ff-1"}
            /\ {id \in DOMAIN games : games[id].type = "final"} = {"final-0"}
            /\ games["ff-0"].aGame = gid(regionNames[1], "e8", 0)
            /\ games["ff-0"].bGame = gid(regionNames[2], "e8", 0)
            /\ games["ff-1"].aGame = gid(regionNames[3], "e8", 0)
            /\ games["ff-1"].bGame = gid(regionNames[4], "e8", 0)
            /\ games["final-0"].aGame = "ff-0"
            /\ games["final-0"].bGame = "ff-1"

\* C20 witness: the graph of a reload under the second rank order is the
\* current state, with its two finalFour games and its championship.
C20_Witness ==
    /\ last.op = "loaded" /\ last.changed /\ last.r = 2
    /\ {"ff-0", "ff-1", "final-0"} \subseteq DOMAIN mmState.games
    /\ mmState.games["ff-1"].aGame = gid(regionNames[3], "e8", 0)
    /\ mmState.games["final-0"].bGame = "ff-1"

\* C30 (as claimed): when the reload started by the reset button has built
\* its graph and no fetch is left in flight, every game has a null winner and
\* the undo stack is empty, whatever pickWinner and undo calls were made
\* while the fetch was in flight.
C30_ResetEndsEmpty ==
    [][(run.reset /\ last'.op = "loaded" /\ last'.changed /\ inflight' = 0)
          => (picksOf(mmState'.games) = {} /\ getUndoStack(lsMmUndo') = <<>>)]_vars

\* the games a cascade started at the games of `level` reaches at recursion
\* depths 1..n, as a sequence of sets (the direct dependents first)
RECURSIVE cascadeLevels(_, _, _)
cascadeLevels(st, level, n) ==
    IF n = 0 THEN <<>>
    ELSE LET next == UNION {range(st.dependents[x]) : x \in level \cap DOMAIN st.dependents}
         IN  <<next>> \o cascadeLevels(st, next, n - 1)

cascadeLevel(st, gameId, k) == cascadeLevels(st, {gameId}, k)[k]

\* the games occupant resolution of gameId reads at depth k: getGameTeams reads
\* the game (depth 0) and getWinnerTeam its two upstream games (depth 1)
resolveLevel(st, gameId, k) ==
    IF k = 0 THEN {gameId}
    ELSE IF k = 1 /\ gameId \in DOMAIN st.games /\ st.games[gameId].type # "r64"
    THEN {st.games[gameId].aGame, st.games[gameId].bGame}
    ELSE {}

\* C21: a cascade started at any game reaches no game at recursion depth 7
\* (so no game is among its own transitive dependents, which would be reached
\* at every depth); the chain of dependents of every round64 game ends at the
\* championship after the five later rounds; occupant resolution of any game
\* reads no game at depth 7.
C21_AcyclicBoundedDepth ==
    ~mmState.isNull =>
        \A id \in DOMAIN mmState.games :
            LET levels == cascadeLevels(mmState, {id}, 7)
            IN  /\ levels[7] = {}
                /\ \A k \in 1..7 : id \notin levels[k]
                /\ resolveLevel(mmState, id, 7) = {}
                /\ mmState.games[id].type = "r64"
                      => /\ levels[5] = {"final-0"}
                         /\ levels[6] = {}

\* C21 witness: an accepted pick of a round64 game ran its cascade over the
\* five later rounds down to the championship, and a second-round game has
\* its occupant resolved from that pick.
C21_Witness ==
    /\ last.op = "pick" /\ last.changed
    /\ mmState.games[last.gameId].type = "r64"
    /\ cascadeLevel(mmState, last.gameId, 5) = {"final-0"}
    /\ \E id \in DOMAIN mmState.games :
          /\ mmState.games[id].type = "r32"
          /\ getGameTeams(mmState, id).a.id = last.teamId

\* C22: a pickWinner call and an undo call leave the set of game ids, every
\* game's type, upstream references and leaf teams, the dependency index and
\* the teams as they are; they change nothing but winners, the stored winner
\* map and the stored undo stack.
C22_GraphIsImmutable ==
    [][(last'.op \in {"pick", "undo"})
          => /\ mmState'.isNull = mmState.isNull
             /\ DOMAIN mmState'.games = DOMAIN mmState.games
             /\ \A id \in DOMAIN mmState.games :
                   [mmState'.games[id] EXCEPT !.winnerId = 0]
                       = [mmState.games[id] EXCEPT !.winnerId = 0]
             /\ mmState'.dependents = mmState.dependents
             /\ mmState'.teamsById = mmState.teamsById
             /\ inflight' = inflight]_vars

\* C22 witness: an undo call popped a snapshot taken before a pick that had
\* cleared a dependent's winner, so winners of two rounds changed at once.
C22_Witness ==
    /\ last.op = "undo" /\ last.changed /\ last.afterPick
    /\ last.cascade >= 1
    /\ Stack # <<>>
    /\ Cardinality(DOMAIN mmState.games) = 63

\* C23: the snapshot an accepted pick pushes has an entry, possibly null, for
\* every game of the graph, and so has every snapshot on the stack; applying
\* to the winner map a snapshot of that very map changes nothing; and applying
\* any snapshot of the stack twice gives what applying it once gives.
C23_SnapshotsAreFullAndIdempotent ==
    /\ [][(last'.op = "pick" /\ last'.changed)
            => /\ DOMAIN top(getUndoStack(lsMmUndo')) = DOMAIN mmState.games
               /\ \A id \in DOMAIN mmState.games :
                     top(getUndoStack(lsMmUndo'))[id] = mmState.games[id].winnerId]_vars
    /\ [](~mmState.isNull
            => /\ applyMadnessSnapshot(mmState.games, snapshotMadness(mmState.games))
                     = mmState.games
               /\ \A k \in 1..Len(Stack) :
                     /\ DOMAIN Stack[k] = DOMAIN mmState.games
                     /\ applyMadnessSnapshot(applyMadnessSnapshot(mmState.games, Stack[k]),
                                             Stack[k])
                           = applyMadnessSnapshot(mmState.games, Stack[k]))

\* C23 witness: the stack holds two snapshots, the older one all null and the
\* newer one not, while the winner map differs from both.
C23_Witness ==
    /\ ~mmState.isNull
    /\ Len(Stack) >= 2
    /\ picksOfSnap(Stack[1]) = {}
    /\ picksOfSnap(Stack[2]) # {}
    /\ picksOfSnap(Stack[2]) # winners
    /\ winners # {}

\* C29: an accepted pickWinner(G, t) leaves the winner of every game other
\* than G and the transitive dependents of G as it was.
C29_PickFrame ==
    [][(last'.op = "pick" /\ last'.changed)
          => \A id \in DOMAIN mmState.games :
                id \notin {last'.gameId} \cup TransDeps(mmState, last'.gameId)
                    => mmState'.games[id].winnerId = mmState.games[id].winnerId]_vars

\* C29 witness: a first-round game of the third region was picked while a
\* second-round game of the first region and a game upstream of that one had
\* winners, and they still have them.
C29_Witness ==
    /\ last.op = "pick" /\ last.changed
    /\ last.gameId = gid(regionNames[3], "r64", 0)
    /\ mmState.games[gid(regionNames[1], "r32", 0)].winnerId # 0
    /\ mmState.games[gid(regionNames[1], "r64", 0)].winnerId # 0

\* the overallRank values of a ranked list, in the order of the list
overallRanks(rankedList) == [i \in 1..Len(rankedList) |-> rankedList[i].overallRank]

\* C24: whatever the options and the votes, the overallRank values of the
\* ranked list of GET /api/brackets are exactly 1..N, each used once, N being
\* the number of options
C24_RanksArePermutation ==
    served.kind = "brackets" =>
        LET ranks == overallRanks(served.ranked)
            N == Len(db.options)
        IN  /\ Len(ranks) = N
            /\ {ranks[i] : i \in 1..Len(ranks)} = 1..N
            /\ \A i, j \in 1..Len(ranks) : ranks[i] = ranks[j] => i = j

\* C24 happens: a full list of options, some of them voted on, has been ranked
C24_Witness ==
    /\ served.kind = "brackets"
    /\ Len(db.options) = MaxOptions
    /\ db.votes # <<>>
    /\ Len(served.ranked) = MaxOptions

\* avgPoints of a ranked entry is higher than that of another, null counted as 0
higherPoints(a, b) ==
    a.avgPoints.num * b.avgPoints.den > b.avgPoints.num * a.avgPoints.den

\* the title s sorts before the title t
sortsBefore(s, t) ==
    \E k \in 1..(Len(s) + 1) :
        /\ k <= Len(t)
        /\ \A m \in 1..(k - 1) : s[m] = t[m]
        /\ k = Len(s) + 1 \/ s[k] < t[k]

\* C25: in a ranked list, an entry with higher avgPoints (null counted as 0)
\* stands before one with lower avgPoints; of two with the same avgPoints the
\* one with more votes stands first; of two with the same avgPoints and votes
\* the one whose title sorts earlier stands first
C25_RankOrder ==
    served.kind \in {"brackets", "personal"} =>
        \A i, j \in 1..Len(served.ranked) :
            LET a == served.ranked[i]
                b == served.ranked[j]
            IN  /\ higherPoints(a, b) => i < j
                /\ ~higherPoints(a, b) /\ ~higherPoints(b, a) /\ a.votes > b.votes => i < j
                /\ ( /\ ~higherPoints(a, b) /\ ~higherPoints(b, a)
                     /\ a.votes = b.votes
                     /\ sortsBefore(a.title, b.title) ) => i < j

\* C25 happens: the list holds two voted options of the same avgPoints of which
\* the one with more votes has the later title, and two options without a vote
\* of different titles
C25_Witness ==
    /\ served.kind = "brackets"
    /\ \E i, j \in 1..Len(served.ranked) :
          /\ ~served.ranked[i].avgPoints.isNull
          /\ ~higherPoints(served.ranked[i], served.ranked[j])
          /\ ~higherPoints(served.ranked[j], served.ranked[i])
          /\ served.ranked[i].votes > served.ranked[j].votes
          /\ sortsBefore(served.ranked[j].title, served.ranked[i].title)
    /\ \E i, j \in 1..Len(served.ranked) :
          /\ served.ranked[i].avgPoints.isNull
          /\ served.ranked[j].avgPoints.isNull
          /\ sortsBefore(served.ranked[i].title, served.ranked[j].title)
          /\ served.ranked[i].id > served.ranked[j].id

\* the teams of a region, as a set
teamsOf(region) == {region.teams[k] : k \in 1..Len(region.teams)}

\* C26: the entry of overall rank r <= 64 is in the region of index (r-1) mod 4
\* of A, B, C, D with seed floor((r-1)/4)+1 and nowhere else, an entry of a
\* higher rank is in no region; so the seed-i teams of the four regions are the
\* i-th band of four ranked entries, or what there is of it
C26_Banding ==
    served.kind = "brackets" =>
        LET N == Len(served.ranked)
            placed(ri) == {r \in 1..N : r <= 64 /\ (r - 1) % 4 = ri - 1}
        IN  /\ Len(served.regions) = 4
            /\ \A ri \in 1..4 :
                  /\ served.regions[ri].name = <<"Bracket A", "Bracket B",
                                                "Bracket C", "Bracket D">>[ri]
                  /\ teamsOf(served.regions[ri]) =
                        {[id |-> served.ranked[r].id, seed |-> ((r - 1) \div 4) + 1] :
                            r \in placed(ri)}
                  /\ Len(served.regions[ri].teams) = Cardinality(placed(ri))
            /\ \A i \in 1..16 :
                  {t.id : t \in {u \in UNION {teamsOf(served.regions[ri]) : ri \in 1..4} :
                                    u.seed = i}}
                  = {served.ranked[r].id : r \in {q \in 1..N : 4 * (i - 1) < q /\ q <= 4 * i}}

\* C26 happens: more than 64 options, ranked otherwise than by their ids, have
\* been dealt to the regions
C26_Witness ==
    /\ served.kind = "brackets"
    /\ Len(served.ranked) > 64
    /\ \E r \in 1..Len(served.ranked) : served.ranked[r].id # r
    /\ Len(served.regions[4].teams) = 16

\* C27: on both endpoints, in each of the four regions every seed is in 1..16
\* and no two teams have the same seed
C27_SeedsValid ==
    served.kind \in {"brackets", "personal"} =>
        /\ Len(served.regions) = 4
        /\ \A ri \in 1..4 :
              LET teams == served.regions[ri].teams
              IN  /\ \A k \in 1..Len(teams) : teams[k].seed \in 1..16
                  /\ \A k, m \in 1..Len(teams) : teams[k].seed = teams[m].seed => k = m

\* C27 happens: a personal bracket of more than 64 entries has been seeded
C27_Witness ==
    /\ served.kind = "personal"
    /\ Len(served.ranked) > 64
    /\ \A ri \in 1..4 : Len(served.regions[ri].teams) = 16

\* the votes that match a request: all of them for the global bracket, those
\* of the tenant for a personal bracket
matching(option) ==
    {i \in 1..Len(db.votes) :
        /\ db.votes[i].option = option.id
        /\ served.kind = "personal" => db.votes[i].tenant = served.tenant}

\* C28: the ranked list of the global bracket and that of a personal bracket
\* hold exactly one entry for every option, and an option without a matching
\* vote has votes 0 and null avgPoints and avgRank
C28_EveryOptionScored ==
    served.kind \in {"brackets", "personal"} =>
        /\ Len(served.ranked) = Len(db.options)
        /\ \A k \in 1..Len(db.options) :
              \E i \in 1..Len(served.ranked) :
                  /\ served.ranked[i].id = db.options[k].id
                  /\ matching(db.options[k]) = {} =>
                        /\ served.ranked[i].votes = 0
                        /\ served.ranked[i].avgPoints.isNull
                        /\ served.ranked[i].avgRank.isNull

\* the part of C28 that the code keeps: the global bracket scores every option
C28_GlobalScoresEveryOption ==
    served.kind = "brackets" => C28_EveryOptionScored

\* C31: when calls of loadMadness were in flight at once and all of them have
\* completed, the current graph is the one built from the answer to the call
\* started last
C31_NewestLoadWins ==
    (pending.raced /\ pending.calls = <<>>) =>
        /\ ~mmState.isNull
        /\ asBuilt(mmState) = built[pending.newest.r][pending.newest.n]

\* C36: for every tenant, two options the tenant has voted on stand in the rank
\* map of the compare endpoint in the order in which they stand in the ranked
\* list of the tenant's personal bracket
C36_CompareAgreesWithPersonal ==
    served.kind = "compare" =>
        \A t \in DOMAIN served.ranksByTenant :
            LET personal == getPersonalBracket(db, t).ranked
            IN  \A i, j \in 1..Len(personal) :
                    i < j => served.ranksByTenant[t][personal[i].id]
                                < served.ranksByTenant[t][personal[j].id]

\* the rows of votes, as a set
voteSet(base) == {base.votes[i] : i \in 1..Len(base.votes)}

\* the step is the answer to a request of the given kind
answers(kind) == steps' # steps /\ served'.kind = kind

\* the payload has a roundId and five rankings whose ranks are 1..5, each once,
\* and whose options are five different rows of burger_club
wellFormed(payload, base) ==
    /\ payload.roundId # 0
    /\ payload.isArray
    /\ Len(payload.rankings) = 5
    /\ {payload.rankings[k].rank : k \in 1..Len(payload.rankings)} = 1..5
    /\ Cardinality({payload.rankings[k].optionId : k \in 1..Len(payload.rankings)}) = 5
    /\ \A k \in 1..Len(payload.rankings) :
          \E i \in 1..Len(base.options) : base.options[i].id = payload.rankings[k].optionId

\* C32: POST /api/vote stores votes only for a payload with a roundId and five
\* rankings of ranks 1..5, each once, on five different existing options; any
\* other payload gets an error and stores nothing; an accepted payload stores
\* five votes, one per ranking, each of rank 1..5 and weight 0.5 or 1; and the
\* table grows by five rows or not at all
C32_VoteStoresFiveOrNothing ==
    [][answers("vote") =>
        LET payload == served'.payload
            new == SubSeq(db'.votes, Len(db.votes) + 1, Len(db'.votes))
        IN  /\ SubSeq(db'.votes, 1, Len(db.votes)) = db.votes
            /\ Len(new) \in {0, 5}
            /\ new # <<>> => wellFormed(payload, db) /\ served'.status = 200
            /\ ~wellFormed(payload, db) => served'.status >= 400 /\ db' = db
            /\ served'.status = 200 =>
                  /\ Len(new) = 5
                  /\ \A k \in 1..5 :
                        /\ new[k].tenant = served'.tenant
                        /\ new[k].option = payload.rankings[k].optionId
                        /\ new[k].rank = payload.rankings[k].rank
                        /\ new[k].rank \in 1..5
                        /\ new[k].weight \in {1, 2}
            /\ served'.status # 200 => db' = db]_vars

\* C32 happens: a second set of five votes has been stored
C32_Witness ==
    /\ served.kind = "vote"
    /\ served.status = 200
    /\ Len(db.votes) = 10

\* C33: a stored vote has weight 1 exactly when the column of the voting tenant
\* in the burger_club row of the voted option is 1, and weight 0.5 otherwise
C33_WeightFollowsAttendance ==
    \A v \in voteSet(db) :
        (v.weight = 2) <=>
            \E i \in 1..Len(db.options) :
                db.options[i].id = v.option /\ v.tenant \in db.options[i].attended

\* C37: GET /api/next returns five different options, and one that the tenant
\* has ranked twice or more only when every option ranked less than twice is
\* returned too; with fewer than five options it returns an error
C37_NextFive ==
    served.kind = "next" =>
        LET timesRanked(id) == Cardinality({k \in 1..Len(db.votes) :
                              db.votes[k].option = id /\ db.votes[k].tenant = served.tenant})
            ids == {db.options[i].id : i \in 1..Len(db.options)}
            returned == {served.options[k].id : k \in 1..Len(served.options)}
        IN  /\ (served.status = 500) <=> (Len(db.options) < 5)
            /\ served.status = 200 =>
                  /\ Len(served.options) = 5
                  /\ Cardinality(returned) = 5
                  /\ returned \subseteq ids
                  /\ (\E id \in returned : timesRanked(id) >= 2)
                        => {id \in ids : timesRanked(id) < 2} \subseteq returned
            /\ served.status \in {200, 500}

\* C37 happens: a round holds the one option ranked less than twice and four
\* of the five ranked twice
C37_Witness ==
    /\ served.kind = "next"
    /\ served.status = 200
    /\ \E k \in 1..5 : served.options[k].timesRanked >= 2
    /\ \E k \in 1..5 : served.options[k].timesRanked < 2
    /\ Len(db.options) = 6

\* C38 as stated: DELETE /api/vote/:id by a tenant removes the vote only when
\* it exists and is the tenant's; a vote of another tenant gets 403, an unknown
\* id 404, and neither changes the votes; DELETE /api/votes removes all the
\* tenant's votes and no other
C38_DeleteOwnOnly ==
    [][/\ answers("delete") =>
            LET hit == {v \in voteSet(db) : v.id = served'.id}
            IN  /\ voteSet(db') # voteSet(db) =>
                      /\ \E v \in hit : v.tenant = served'.tenant
                      /\ voteSet(db') = voteSet(db) \ hit
                /\ (\E v \in hit : v.tenant # served'.tenant) =>
                      served'.status = 403 /\ db' = db
                /\ hit = {} => served'.status = 404 /\ db' = db
       /\ answers("deleteAll") =>
            voteSet(db') = {v \in voteSet(db) : v.tenant # served'.tenant}]_vars

\* C38 amended: the same, with 404 for an unknown id other than 0 and 400 for
\* the id 0 (or a parameter that is not a number)
C38_DeleteOwnOnlyAmended ==
    [][/\ answers("delete") =>
            LET hit == {v \in voteSet(db) : v.id = served'.id}
            IN  /\ voteSet(db') # voteSet(db) =>
                      /\ \E v \in hit : v.tenant = served'.tenant
                      /\ voteSet(db') = voteSet(db) \ hit
                      /\ served'.status = 200
                /\ (\E v \in hit : v.tenant # served'.tenant) =>
                      served'.status = 403 /\ db' = db
                /\ (hit = {} /\ served'.id # 0) => served'.status = 404 /\ db' = db
                /\ served'.id = 0 => served'.status = 400 /\ db' = db
                /\ (\E v \in hit : v.tenant = served'.tenant) =>
                      served'.status = 200 /\ voteSet(db') = voteSet(db) \ hit
       /\ answers("deleteAll") =>
            voteSet(db') = {v \in voteSet(db) : v.tenant # served'.tenant}]_vars

\* C38 happens: a tenant has deleted one of their votes while another tenant
\* has votes too
C38_Witness ==
    /\ served.kind = "delete"
    /\ served.status = 200
    /\ \E v \in voteSet(db) : v.tenant = served.tenant
    /\ \E v \in voteSet(db) : v.tenant # served.tenant

\* C34: for one round the server has served, at most one set of five votes is
\* stored, however often submit is clicked while a request is in flight
C34_OneVoteSetPerRound ==
    \A roundId \in 1..Len(voteTab.rounds) :
        Cardinality({i \in 1..Len(db.votes) : db.votes[i].round = roundId}) <= 5

\* C35: the payload of a vote request that is on its way holds the five options
\* that the server returned under the roundId of the payload
C35_PayloadMatchesRound ==
    \A i \in 1..Len(voteTab.tasks) :
        voteTab.tasks[i].waitsFor = "post" =>
            LET payload == voteTab.tasks[i].payload
            IN  /\ payload.roundId \in 1..Len(voteTab.rounds)
                /\ {payload.rankings[k].optionId : k \in 1..5}
                     = {voteTab.rounds[payload.roundId][k] :
                            k \in 1..Len(voteTab.rounds[payload.roundId])}

====
